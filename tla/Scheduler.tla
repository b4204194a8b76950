------------------------------ MODULE Scheduler ------------------------------
(***************************************************************************)
(* The scheduler: handle_schedule(), the list of timers in                 *)
(* msecTimerHandlerStruct, the interval timers ("jobs"), the timers that   *)
(* make a task read its sensor, and the system event queue.                *)
(*                                                                         *)
(* One thread runs everything.  A pass of handle_schedule() runs one timer *)
(* or, when none is due or the events have waited too long, the background *)
(* tasks and one event.  A handler can take time, and while it runs (or in *)
(* the background tasks) settings are saved, commands are executed, timers *)
(* are set and events are posted.                                          *)
(*                                                                         *)
(* Left out: the id kept in RTC memory for the report after a crash, the   *)
(* timers of plugins and GPIO pins (one-shot timers of the same list),     *)
(* tasks that get their values from another unit, deep sleep (which runs   *)
(* no timers) and the ESP32 build that runs the scheduler in a thread.     *)
(***************************************************************************)
EXTENDS TimeCalc, Sequences, SequencesExt

CONSTANTS
    Jobs,        \* the interval timers, e.g. TIMER_100MSEC
    Step,        \* Step[j]: the interval of a job
    Restarted,   \* the jobs whose timer other code sets as well (TIMER_MQTT)
    TasksMax,    \* TASKS_MAX
    Intervals,   \* what can be saved as interval of a task (TaskDeviceTimer)
    Nobody,      \* no handler runs
    Idle,        \* the background tasks and the event queue run
    OverrideTime,\* the events are looked at every 500 msec
    MaxWait,     \* MAX_SCHEDULER_WAIT_TIME
    MaxBusy,     \* bound: how long a handler takes
    MaxLate,     \* bound: how late a timer gets
    MaxEvents    \* bound: the length of the event queue

Tasks == 1..TasksMax
Ids   == Jobs \cup Tasks

ASSUME SchedulerAssumption ==
    /\ IsFiniteSet(Jobs) /\ Jobs \cap Tasks = {}
    /\ TasksMax \in 0..HalfMax
    /\ Step \in [Jobs -> 1..HalfMax]
    /\ Restarted \subseteq Jobs
    /\ Intervals \subseteq 0..HalfMax /\ 0 \in Intervals
    /\ Nobody \notin Ids /\ Idle \notin Ids /\ Idle # Nobody
    /\ OverrideTime \in 1..HalfMax
    /\ MaxWait \in Nat /\ MaxBusy \in Nat /\ MaxLate \in Nat
    /\ MaxEvents \in Nat \ {0}

VARIABLES
    now,       \* millis()
    timers,    \* _timer_ids: the list of timers, the one due first in front
    tasks,     \* what Settings has for each task: a plugin, enabled, interval
    events,    \* EventQueue.size()
    lastEvent, \* last_system_event_run
    serving,   \* whose handler runs: an id, Idle or Nobody
    busy       \* history: how long it has been running

vars == <<now, timers, tasks, events, lastEvent, serving, busy>>

\* The settings of a task that is cleared, or has a plugin.
Cleared == [plugin |-> FALSE, enabled |-> FALSE, interval |-> 0]

TaskSettings ==
    {Cleared} \cup [plugin : {TRUE}, enabled : BOOLEAN, interval : Intervals]

-----------------------------------------------------------------------------
\* The list of timers

Late(at) == timePassedSince(at, now)

\* The list without the timer of this id; there is one at most, see InOrder.
Without(list, id) ==
    IF \E i \in 1..Len(list) : list[i].id = id
      THEN RemoveAt(list, CHOOSE i \in 1..Len(list) : list[i].id = id)
      ELSE list

\* Mutant: the order of the list is the order of the time stamps.
InsertByTimestamp(list, id, at) ==
    LET others  == Without(list, id)
        atLeast == {i \in 1..Len(others) : others[i].at >= at}
    IN  InsertAt(others, Min(atLeast \cup {Len(others) + 1}),
                 [id |-> id, at |-> at])

\* Mutant: the timer that has this id already stays in the list.
InsertAnother(list, id, at) ==
    LET noLater == {i \in 1..Len(list) : Late(list[i].at) <= Late(at)}
    IN  InsertAt(list, Min(noLater \cup {Len(list) + 1}),
                 [id |-> id, at |-> at])

\* insert(): the new timer replaces the one with its id, goes to the front and
\* the list is sorted by how late the timers are; the sort is stable and the
\* others are in order, see InOrder, so that the new one comes to stand before
\* the first that is no later.
Insert(list, id, at) ==
    LET others  == Without(list, id)
        noLater == {i \in 1..Len(others) : Late(others[i].at) <= Late(at)}
    IN  InsertAt(others, Min(noLater \cup {Len(others) + 1}),
                 [id |-> id, at |-> at])

\* schedule_task_device_timer(), with the settings ts.
ScheduleTask(list, ts, t, at) ==
    IF ts[t].plugin /\ ts[t].enabled THEN Insert(list, t, at) ELSE list

\* schedule_task_device_timer_at_init(): the tasks get different times.
ScheduleAtInit(list, ts, t) == ScheduleTask(list, ts, t, Plus(now, t))

\* The loop of PluginInit() and of schedule_all_tasks_using_MQTT_controller(),
\* over the tasks in S.
ScheduleAll(list, ts, S) ==
    LET upTo[t \in 0..TasksMax] ==
          IF t = 0 THEN list
          ELSE IF t \in S THEN ScheduleAtInit(upTo[t - 1], ts, t)
          ELSE upTo[t - 1]
    IN  upTo[TasksMax]

\* Mutant: the time from now is taken for the time.
OverrideTimerAt(list, j, msec) == Insert(list, j, msec)

\* setIntervalTimerOverride(): the next run is msec from now.
OverrideTimer(list, j, msec) ==
    Insert(list, j, setNextTimeInterval(now, msec, now))

\* PLUGIN_INIT_ALL, and the first runs that setup() gives to the jobs: they go
\* to the front, in any order.
Init ==
    /\ now = 0
    /\ tasks \in [Tasks -> TaskSettings]
    /\ \E order \in Bijection(1..Cardinality(Jobs), Jobs) :
         timers = [i \in 1..Cardinality(Jobs) |->
                     [id |-> order[i], at |-> setNextTimeInterval(now, 1, now)]]
                  \o ScheduleAll(<<>>, tasks, Tasks)
    /\ events = 0
    /\ lastEvent = 0
    /\ serving = Nobody
    /\ busy = 0

-----------------------------------------------------------------------------
\* A pass of handle_schedule()

\* Mutant: events are handled when nothing else is to do.
EventsComeLast == FALSE

\* Mutant: the comparison with the override time is the wrong way round.
EventsComeFirst == timePassedSince(lastEvent, now) < OverrideTime

\* Make sure the event queue is looked at every now and then.
EventsWaitedLong == timePassedSince(lastEvent, now) >= OverrideTime

\* getNextId(): a timer is due.
TimerDue == timers # <<>> /\ timeOutReached(Head(timers).at, now)

StartPass(id) ==
    /\ serving = Nobody
    /\ serving' = id
    /\ busy' = 0
    /\ UNCHANGED <<now, tasks, events, lastEvent>>

\* process_interval_timer()
StartJob(j) ==
    /\ ~EventsWaitedLong /\ TimerDue
    /\ Head(timers).id = j
    /\ StartPass(j)
    /\ timers' = Insert(Tail(timers), j,
                        setNextTimeInterval(Head(timers).at, Step[j], now))

\* process_task_device_timer(): the next run is one interval after the time
\* this one was due, then the sensor is read.
StartTask(t) ==
    /\ ~EventsWaitedLong /\ TimerDue
    /\ Head(timers).id = t
    /\ StartPass(t)
    /\ timers' = IF tasks[t].interval = 0 THEN Tail(timers)
                 ELSE ScheduleTask(Tail(timers), tasks, t,
                                   Plus(Head(timers).at, tasks[t].interval))

FinishTimer ==
    /\ serving \in Ids
    /\ serving' = Nobody
    /\ busy' = 0
    /\ UNCHANGED <<now, timers, tasks, events, lastEvent>>

StartIdle ==
    /\ EventsWaitedLong \/ ~TimerDue
    /\ StartPass(Idle)
    /\ UNCHANGED timers

\* process_system_event_queue() returns: the event is removed after it was
\* handled.
FinishIdle ==
    /\ serving = Idle
    /\ serving' = Nobody
    /\ busy' = 0
    /\ events' = IF events = 0 THEN 0 ELSE events - 1
    /\ lastEvent' = now
    /\ UNCHANGED <<now, timers, tasks>>

\* Time passes in a handler, or waiting for the next timer in getNextId().
Tick ==
    /\ IF serving = Nobody
         THEN busy < MaxWait /\ ~EventsWaitedLong /\ ~TimerDue
         ELSE busy < MaxBusy
    /\ \A i \in 1..Len(timers) : Late(timers[i].at) < MaxLate
    /\ now' = Plus(now, 1)
    /\ busy' = busy + 1
    /\ UNCHANGED <<timers, tasks, events, lastEvent, serving>>

-----------------------------------------------------------------------------
\* What handlers and background tasks do

\* The device page saves the settings of a task, and calls PLUGIN_INIT.
SaveTask(t) ==
    /\ tasks[t].plugin
    /\ \E e \in BOOLEAN, i \in Intervals :
         /\ tasks' = [tasks EXCEPT ![t].enabled = e, ![t].interval = i]
    /\ timers' = ScheduleAtInit(timers, tasks', t)
    /\ UNCHANGED <<now, events, lastEvent, serving, busy>>

\* taskClear(), by the command or when another plugin is chosen for the task:
\* its timer stays in the list.
ClearTask(t) ==
    /\ \E p \in BOOLEAN :
         tasks' = [tasks EXCEPT ![t] = [Cleared EXCEPT !.plugin = p]]
    /\ UNCHANGED <<now, timers, events, lastEvent, serving, busy>>

\* Mutant: a task is enabled and not scheduled.
EnableOnly(t) ==
    /\ tasks[t].plugin
    /\ tasks' = [tasks EXCEPT ![t].enabled = TRUE]
    /\ UNCHANGED <<now, timers, events, lastEvent, serving, busy>>

\* setTaskEnableStatus(), by the command TaskEnable (PLUGIN_INIT is called for
\* the task of the event, see EventTask).
EnableTask(t) ==
    /\ tasks[t].plugin
    /\ tasks' = [tasks EXCEPT ![t].enabled = TRUE]
    /\ timers' = ScheduleTask(timers, tasks', t, Plus(now, 1))
    /\ UNCHANGED <<now, events, lastEvent, serving, busy>>

\* The task of the event a command is executed with: it is never set.
EventTask == Nobody

\* The command TaskDisable: setTaskEnableStatus() is called only if the call
\* of PLUGIN_EXIT, for the task of the event, succeeded.
DisableTask(t) ==
    /\ tasks[t].plugin
    /\ tasks' = IF EventTask \in Tasks /\ tasks[EventTask].plugin
                  THEN [tasks EXCEPT ![t].enabled = FALSE] ELSE tasks
    /\ UNCHANGED <<now, timers, events, lastEvent, serving, busy>>

\* A plugin has a new value and asks to be read: soon, or as if it was late.
RequestRead(t) ==
    /\ tasks[t].enabled
    /\ \E at \in {Plus(now, 1), Plus(now, ULongMax)} :
         timers' = ScheduleTask(timers, tasks, t, at)
    /\ UNCHANGED <<now, tasks, events, lastEvent, serving, busy>>

\* schedule_all_tasks_using_MQTT_controller(), when the broker is connected.
ConnectMQTT ==
    /\ \E S \in SUBSET Tasks : timers' = ScheduleAll(timers, tasks, S)
    /\ UNCHANGED <<now, tasks, events, lastEvent, serving, busy>>

\* A job is to run soon, e.g. MQTT after a message was queued.
Override(j) ==
    /\ timers' = OverrideTimer(timers, j, 1)
    /\ UNCHANGED <<now, tasks, events, lastEvent, serving, busy>>

\* A callback posts an event, e.g. a message from the broker.
PostEvent ==
    /\ events < MaxEvents
    /\ events' = events + 1
    /\ UNCHANGED <<now, timers, tasks, lastEvent, serving, busy>>

Pass ==
    \/ \E j \in Jobs : StartJob(j)
    \/ \E t \in Tasks : StartTask(t)
    \/ StartIdle

Finish == FinishTimer \/ FinishIdle

Next ==
    \/ Pass
    \/ Finish
    \/ Tick
    \/ \E t \in Tasks :
         \/ SaveTask(t)
         \/ ClearTask(t)
         \/ EnableTask(t)
         \/ DisableTask(t)
         \/ RequestRead(t)
    \/ ConnectMQTT
    \/ \E j \in Restarted : Override(j)
    \/ PostEvent

\* loop() calls handle_schedule() for ever, every handler returns, and no
\* msec has room for infinitely many passes.
Fairness == WF_vars(Pass) /\ WF_vars(Finish) /\ SF_vars(Tick)

Spec == Init /\ [][Next]_vars /\ Fairness

-----------------------------------------------------------------------------
\* Properties

InList(id) == {i \in 1..Len(timers) : timers[i].id = id}

\* The list has one timer per id and stays in order while time passes and the
\* clock wraps, although it is sorted only when a timer is set.
InOrder ==
  /\ timers \in Seq([id : Ids, at : ULong])
  /\ \A i, j \in 1..Len(timers) : i < j =>
        /\ timers[i].id # timers[j].id
        /\ Late(timers[i].at) >= Late(timers[j].at)

\* The chain of timers of an enabled task that has an interval is not broken,
\* whatever is saved, enabled or requested while it is read; nor that of a job.
NobodyForgotten ==
    /\ \A j \in Jobs : InList(j) # {}
    /\ \A t \in Tasks :
         tasks[t].plugin /\ tasks[t].enabled /\ tasks[t].interval > 0
           => InList(t) # {}

\* A job is never put off for longer than its interval (or the override).
JobsWithinStep ==
    \A j \in Jobs : \A i \in InList(j) : -Late(timers[i].at) \in -MaxLate..Step[j]

\* Timers that are due do not keep the event queue waiting: one override time,
\* the handler that was running then and the events before it.
EventsNotStarved ==
    timePassedSince(lastEvent, now) \in 0..(OverrideTime - 1 + 2 * MaxBusy)

\* What whoever sets a timer is promised, see Alarms.
Due == [id \in Ids |-> IF InList(id) = {} THEN -1
                       ELSE timers[CHOOSE i \in InList(id) : TRUE].at]

Alarm == INSTANCE Alarms WITH
             due <- Due, serving <- IF serving = Idle THEN Nobody ELSE serving

ImplementsAlarms == Alarm!Spec

\* The periodic jobs run for ever: neither tasks nor events starve them.
JobsRun == \A j \in Jobs \ Restarted : []<>(serving = j)

=============================================================================
