------------------------------ MODULE QueueTimer ------------------------------
(***************************************************************************)
(* When a controller's delay queue is processed: the timer of              *)
(* process_cNNN_delay_queue(), set by getNextScheduleTime() after each     *)
(* call of addToQueue() and markProcessed(), and by the scheduler's        *)
(* fall-back interval before each run.  millis() wraps.                    *)
(*                                                                         *)
(* Of the queue only its length is kept: DelayQueue models what is in it.  *)
(* CPLUGIN_FLUSH, which ignores the timer, is left out: it is called only  *)
(* to empty the queues before a reboot or deep sleep.                      *)
(***************************************************************************)
EXTENDS TimeCalc, FiniteSets

CONSTANTS
    Depth,      \* bound: max_queue_depth
    MinTimes,   \* what can be saved as minTimeBetweenMessages
    Fallback,   \* the interval of the fall-back timer, 1000 msec
    MaxLate,    \* bound: how long one call from the main loop may take
    MaxIdle     \* bound: the longest time without an element sent (a run
                \* that is due one msec later is still awaited)

ASSUME QueueTimerAssumption ==
    /\ Depth \in Nat \ {0}
    /\ MinTimes \subseteq 1..HalfMax
    /\ \E t \in MinTimes : \A u \in MinTimes : t <= u
    /\ \E t \in MinTimes : \A u \in MinTimes : u <= t
    /\ Fallback \in 1..HalfMax
    /\ MaxLate \in 1..HalfMax
    /\ MaxIdle \in Nat

VARIABLES
    now,       \* millis()
    timer,     \* when TIMER_CNNN_DELAY_QUEUE is due, or NotSet
    pending,   \* sendQueue.size()
    lastSend,  \* when the last element was removed as processed
    minTime,   \* minTimeBetweenMessages in use
    saved,     \* minTimeBetweenMessages saved in the controller settings
    net,       \* the network is connected
    sending,   \* do_process runs
    elapsed,   \* history: the time since lastSend
    busy       \* history: how long do_process has been running

vars == <<now, timer, pending, lastSend, minTime, saved, net, sending, elapsed,
          busy>>

NotSet == -1

Longest == CHOOSE t \in MinTimes : \A u \in MinTimes : u <= t

\* No timer of a delay queue is set at boot.
Init ==
    /\ now = 0
    /\ timer = NotSet
    /\ pending = 0
    /\ lastSend = 0
    /\ minTime \in MinTimes
    /\ saved \in MinTimes
    /\ net = FALSE
    /\ sending = FALSE
    /\ elapsed = 0
    /\ busy = 0

-----------------------------------------------------------------------------
\* Time passes; the scheduler is never more than MaxLate late.
Tick ==
    /\ \/ elapsed < MaxIdle
       \/ pending > 0 /\ ~sending /\ timer = Plus(now, 1)
    /\ IF sending THEN busy < MaxLate
                  ELSE timer # NotSet => timePassedSince(timer, now) < MaxLate
    /\ now' = Plus(now, 1)
    /\ elapsed' = elapsed + 1
    /\ busy' = IF sending THEN busy + 1 ELSE 0
    /\ UNCHANGED <<timer, pending, lastSend, minTime, saved, net, sending>>

\* Mutant: the interval starts anew with each call.
IntervalFromNow(last, interval) ==
    IF Plus(now, interval) = 0 THEN 1 ELSE Plus(now, interval)

\* getNextScheduleTime() of a queue that is not empty.
getNextScheduleTime(last, interval) ==
    LET nextTime == IF timePassedSince(Plus(last, interval), now) > 0
                      THEN now ELSE Plus(last, interval)
    IN  IF nextTime = 0 THEN 1 ELSE nextTime

\* scheduleNextDelayQueue(): it leaves timer t alone when nothing is queued.
Schedule(t, size, last, interval) ==
    IF size = 0 THEN t ELSE getNextScheduleTime(last, interval)

\* CPLUGIN_PROTOCOL_SEND: the sample is queued, takes the place of another one
\* or is refused; then the queue is scheduled.
Add ==
    /\ pending' \in {pending, pending + 1}
    /\ pending' <= Depth
    /\ timer' = Schedule(timer, pending', lastSend, minTime)
    /\ UNCHANGED <<now, lastSend, minTime, saved, net, sending, elapsed, busy>>

\* process_interval_timer() sets the next run before the process function.
FallbackTimer == setNextTimeInterval(timer, Fallback, now)

\* The run of the timer, up to what getNext() leaves: it may give up on the
\* front element.
Fire ==
    /\ ~sending
    /\ timer # NotSet
    /\ timeOutReached(timer, now)
    /\ pending' \in {pending, pending - 1} \cap Nat
    /\ UNCHANGED <<now, lastSend, saved, net, elapsed>>

NothingQueued ==
    /\ Fire
    /\ pending' = 0
    /\ timer' = FallbackTimer
    /\ UNCHANGED <<minTime, sending, busy>>

\* The controller settings cannot be allocated, or there is no network.
NotReady ==
    /\ Fire
    /\ pending' > 0
    /\ minTime' = minTime \/ (~net /\ minTime' = saved)
    /\ timer' = Schedule(FallbackTimer, pending', lastSend, minTime')
    /\ UNCHANGED <<sending, busy>>

StartSend ==
    /\ Fire
    /\ pending' > 0
    /\ net
    /\ minTime' = saved
    /\ timer' = FallbackTimer
    /\ sending' = TRUE
    /\ busy' = 0

\* Mutant: lastSend is set when an attempt has failed, not when it succeeded.
ProcessedLate(done) ==
    /\ done => pending > 0
    /\ pending' = IF done THEN pending - 1 ELSE pending
    /\ lastSend' = IF done THEN lastSend ELSE now
    /\ elapsed' = IF done THEN 0 ELSE elapsed

\* markProcessed()
MarkProcessed(done) ==
    /\ pending' = IF done THEN pending - 1 ELSE pending
    /\ lastSend' = IF done THEN now ELSE lastSend
    /\ elapsed' = IF done THEN 0 ELSE elapsed

\* do_process returns: the element is done, or it is not, since nothing was sent
\* or a value that is not its last.
FinishSend ==
    /\ sending
    /\ sending' = FALSE
    /\ busy' = 0
    /\ \E done \in BOOLEAN : MarkProcessed(done)
    /\ timer' = Schedule(timer, pending', lastSend', minTime)
    /\ UNCHANGED <<now, minTime, saved, net>>

\* The controller page; most controllers configure the queue in CPLUGIN_INIT.
SaveSettings ==
    /\ saved' \in MinTimes
    /\ minTime' \in {minTime, saved'}
    /\ UNCHANGED <<now, timer, pending, lastSend, net, sending, elapsed, busy>>

NetworkChange ==
    /\ net' = ~net
    /\ UNCHANGED <<now, timer, pending, lastSend, minTime, saved, sending,
                   elapsed, busy>>

Next ==
    \/ Tick
    \/ Add
    \/ NothingQueued
    \/ NotReady
    \/ StartSend
    \/ FinishSend
    \/ SaveSettings
    \/ NetworkChange

\* The main loop runs handle_schedule() for ever, time goes on, a send times
\* out, and the heap is not low for ever.
Fairness ==
    /\ WF_vars(Tick)
    /\ WF_vars(NothingQueued \/ NotReady \/ StartSend)
    /\ SF_vars(StartSend)
    /\ WF_vars(FinishSend)

Spec == Init /\ [][Next]_vars /\ Fairness

-----------------------------------------------------------------------------
\* Properties

TypeOK ==
    /\ now \in ULong
    /\ timer \in ULong \cup {NotSet}
    /\ pending \in 0..Depth
    /\ lastSend \in ULong
    /\ minTime \in MinTimes /\ saved \in MinTimes
    /\ net \in BOOLEAN /\ sending \in BOOLEAN
    /\ elapsed \in Nat
    /\ busy \in 0..MaxLate

\* The shortest interval that can be in use when a run is scheduled.
Shortest == CHOOSE t \in MinTimes : \A u \in MinTimes : t <= u

\* After an element was sent, the next one waits for the minimum interval,
\* whatever is queued, given up or saved in between, across a wrap of millis().
SpacedAfterSuccess ==
    [][StartSend => elapsed >= Shortest]_vars

\* A queued element does not wait longer than the interval demands (one msec
\* is lost when 0, which means "nothing to do", would be the next time).
ServedInTime ==
    pending > 0 /\ ~sending =>
        /\ timer # NotSet
        /\ \/ timeDiff(now, timer) <= 1
           \/ timeDiff(now, timer) <= Longest - elapsed + 1

\* Once the network stays connected a queue that is not empty is processed.
QueueIsServed == (<>[]net) => (pending > 0 ~> sending \/ pending = 0)

=============================================================================
