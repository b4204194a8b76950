------------------------------ MODULE RuleEvents ------------------------------
(***************************************************************************)
(* Events, the rules they run, and the timers of rules.                    *)
(*                                                                         *)
(* An event is processed by rulesProcessing(), which reads the rules and   *)
(* runs their commands.  Commands send further events, some to the queue,  *)
(* others to be processed at once: rulesProcessing() is called again, up   *)
(* to a level of nesting.  TimerPause and TimerResume do so between what   *)
(* they read of the timer and what they write to it.                       *)
(*                                                                         *)
(* A call of rulesProcessing() is a frame on the stack.  It reads up to    *)
(* MaxFiles files, runs the background tasks after each line, and once     *)
(* more before it returns: commands also come from the web or the serial   *)
(* line then.  Which commands rules have is not modelled: any of them, up  *)
(* to MaxLines for one event.  How blocks of rules are read is in          *)
(* RuleBlocks.  Rules are enabled.                                         *)
(***************************************************************************)
EXTENDS TimeCalc, Sequences, FiniteSets

CONSTANTS
    LastTimer,   \* RULES_TIMER_MAX
    Durations,   \* the times timers are set to (0 clears a timer)
    MaxNesting,  \* RULES_MAX_NESTING_LEVEL
    MaxFiles,    \* RULESETS_MAX
    MaxLines,    \* bound: commands run during one event, those from the
                 \* background tasks included
    MaxQueue,    \* bound: length of the event queue
    MaxFailures, \* bound: number of failures to open the rules
    MaxLate      \* bound: how long timers are due before rulesTimers() is
                 \* called, or while rules run

Timers == 1..LastTimer

ASSUME RuleEventsAssumption ==
    /\ LastTimer \in Nat \ {0}
    /\ Durations \subseteq 0..HalfMax
    /\ MaxNesting \in Nat \ {0} /\ MaxFiles \in Nat /\ MaxLines \in Nat
    /\ MaxQueue \in Nat /\ MaxFailures \in Nat /\ MaxLate \in 0..HalfMax

VARIABLES
    now,       \* millis()
    timestamp, \* RulesTimer[t].timestamp
    interval,  \* RulesTimer[t].interval
    paused,    \* RulesTimer[t].paused
    waiting,   \* number of events in eventQueue
    frames,    \* the calls of rulesProcessing(), innermost last
    level,     \* nestingLevel
    scan,      \* the timer rulesTimers() looks at next, or 0
    failures,  \* number of failures to open the rules
    meddled,   \* history: timers that had commands since their own rules run
    ordered    \* history: what the last step has set a timer to

timers == <<timestamp, interval, paused>>
vars   == <<now, timers, waiting, frames, level, scan, failures, meddled,
            ordered>>

Order(t, d) == [timer |-> t, time |-> d]
NoOrder     == Order(0, 0)

Init ==
    /\ now \in ULong
    /\ timestamp = [t \in Timers |-> 0]
    /\ interval = [t \in Timers |-> 0]
    /\ paused = [t \in Timers |-> FALSE]
    /\ waiting = 0 /\ frames = <<>> /\ level = 0 /\ scan = 0 /\ failures = 0
    /\ meddled = {} /\ ordered = NoOrder

-----------------------------------------------------------------------------
\* What the event of a call was about, and what the caller does when it
\* returns.  The time left is read before the call only for a pause.
Nothing       == [do |-> "nothing", timer |-> 0, left |-> 0]
Firing(t)     == [do |-> "fire", timer |-> t, left |-> 0]
Pausing(t, n) == [do |-> "pause", timer |-> t, left |-> n]
Resuming(t)   == [do |-> "resume", timer |-> t, left |-> interval[t]]

\* A file is open, the files still to be read, the lines still to be run, and
\* whether the background tasks are run here.
Frame(files, then) ==
    [open |-> FALSE, files |-> files, lines |-> MaxLines, bg |-> FALSE,
     then |-> then]

\* rulesProcessing(), from those callers, for an event that has rules in some
\* of the files, or none.
Call(callers, then) ==
    /\ \E files \in 0..MaxFiles : frames' = Append(callers, Frame(files, then))
    /\ UNCHANGED <<level, failures>>

NoCall(callers) == frames' = callers /\ UNCHANGED <<level, failures>>

SetTimer(t, stamp, int, isPaused) ==
    /\ timestamp' = [timestamp EXCEPT ![t] = stamp]
    /\ interval' = [interval EXCEPT ![t] = int]
    /\ paused' = [paused EXCEPT ![t] = isPaused]

-----------------------------------------------------------------------------
\* Commands, run from those callers: the rules of the last one, or the web,
\* the serial line or a controller when there is none.
\* The rules for the pause or the resumption of this timer are being run.
Own(frame, t) == frame.then.do \in {"pause", "resume"} /\ frame.then.timer = t

InOwnRules(t) == \E i \in 1..Len(frames) : Own(frames[i], t)

Meddle(t) == meddled' = IF InOwnRules(t) THEN meddled \cup {t} ELSE meddled

TimerSet(t, callers) ==
    /\ \E d \in Durations :
         /\ IF d > 0 THEN SetTimer(t, Plus(now, d), d, FALSE)
                     ELSE SetTimer(t, 0, 0, FALSE)
         /\ ordered' = Order(t, d)
    /\ Meddle(t)
    /\ NoCall(callers) /\ UNCHANGED waiting

TimerPause(t, callers) ==
    LET delta == timePassedSince(timestamp[t], now) IN
    /\ IF ~paused[t] /\ timestamp[t] # 0 /\ delta < 0
       THEN Call(callers, Pausing(t, -delta)) /\ Meddle(t)
       ELSE NoCall(callers) /\ UNCHANGED meddled
    /\ ordered' = NoOrder
    /\ UNCHANGED <<timers, waiting>>

TimerResume(t, callers) ==
    /\ IF paused[t] /\ interval[t] > 0 /\ timestamp[t] # 0
       THEN Call(callers, Resuming(t)) /\ Meddle(t)
       ELSE NoCall(callers) /\ UNCHANGED meddled
    /\ ordered' = NoOrder
    /\ UNCHANGED <<timers, waiting>>

\* A command that sends an event to be processed at once, or reads rules.
Event(callers) ==
    /\ Call(callers, Nothing)
    /\ ordered' = NoOrder
    /\ UNCHANGED <<timers, waiting, meddled>>

AsyncEvent(callers) ==
    /\ waiting < MaxQueue
    /\ waiting' = waiting + 1
    /\ ordered' = NoOrder
    /\ NoCall(callers) /\ UNCHANGED <<timers, meddled>>

Command(callers) ==
    \/ \E t \in Timers :
         TimerSet(t, callers) \/ TimerPause(t, callers)
           \/ TimerResume(t, callers)
    \/ Event(callers) \/ AsyncEvent(callers)

Idle == frames = <<>> /\ scan = 0

OtherCommand ==
    /\ Idle
    /\ Command(<<>>)
    /\ UNCHANGED <<now, scan>>

Top == frames[Len(frames)]
Callers == SubSeq(frames, 1, Len(frames) - 1)

\* The innermost call goes on with that frame.
TopBecomes(frame) == frames' = Append(Callers, frame)

\* Mutant: the count is not taken back when the file is refused.
OpenCounted ==
    /\ frames # <<>> /\ ~Top.open /\ Top.files > 0
    /\ level' = level + 1
    /\ TopBecomes([Top EXCEPT !.open = level < MaxNesting, !.files = @ - 1])
    /\ ordered' = NoOrder
    /\ UNCHANGED <<now, timers, waiting, scan, failures, meddled>>

\* Mutant: the level of nesting is not limited.
OpenUnlimited ==
    /\ frames # <<>> /\ ~Top.open /\ Top.files > 0
    /\ level' = level + 1
    /\ TopBecomes([Top EXCEPT !.open = TRUE, !.files = @ - 1])
    /\ ordered' = NoOrder
    /\ UNCHANGED <<now, timers, waiting, scan, failures, meddled>>

\* rulesProcessingFile() refuses a file when rules are nested too deep; the
\* level is not counted back when the file cannot be opened.
OpenFile ==
    /\ frames # <<>> /\ ~Top.open /\ Top.files > 0
    /\ \/ /\ level >= MaxNesting
          /\ TopBecomes([Top EXCEPT !.files = @ - 1])
          /\ UNCHANGED <<level, failures>>
       \/ /\ level < MaxNesting
          /\ level' = level + 1
          /\ TopBecomes([Top EXCEPT !.open = TRUE, !.files = @ - 1])
          /\ UNCHANGED failures
       \/ /\ level < MaxNesting /\ failures < MaxFailures
          /\ level' = level + 1 /\ failures' = failures + 1
          /\ TopBecomes([Top EXCEPT !.files = @ - 1])
    /\ ordered' = NoOrder
    /\ UNCHANGED <<now, timers, waiting, scan, meddled>>

\* The next command of the rules for the innermost event.
RunLine ==
    /\ frames # <<>> /\ Top.open /\ Top.lines > 0
    /\ Command(Append(Callers, [Top EXCEPT !.lines = @ - 1, !.bg = FALSE]))
    /\ UNCHANGED <<now, scan>>

\* backgroundtasks(), after a line, in a Delay, or at the end of
\* rulesProcessing(): it does nothing when it is being run already.
BackgroundCommand ==
    /\ frames # <<>> /\ (Top.open \/ Top.files = 0) /\ Top.lines > 0
    /\ \A i \in 1..(Len(frames) - 1) : ~frames[i].bg
    /\ Command(Append(Callers, [Top EXCEPT !.lines = @ - 1, !.bg = TRUE]))
    /\ UNCHANGED <<now, scan>>

\* rulesProcessingFile() returns.
CloseFile ==
    /\ frames # <<>> /\ Top.open
    /\ level' = level - 1
    /\ TopBecomes([Top EXCEPT !.open = FALSE, !.bg = FALSE])
    /\ ordered' = NoOrder
    /\ UNCHANGED <<now, timers, waiting, scan, failures, meddled>>

\* Mutant: the timer goes on as if it had never been paused.
ReturnUnpaused(then) ==
    CASE then.do = "pause"  -> SetTimer(then.timer, timestamp[then.timer],
                                        then.left, TRUE)
      [] then.do = "resume" -> SetTimer(then.timer, timestamp[then.timer],
                                        interval[then.timer], FALSE)
      [] OTHER              -> UNCHANGED timers

Return(then) ==
    CASE then.do = "pause"  -> SetTimer(then.timer, timestamp[then.timer],
                                        then.left, TRUE)
      [] then.do = "resume" -> SetTimer(then.timer,
                                        Plus(now, interval[then.timer]),
                                        interval[then.timer], FALSE)
      [] OTHER              -> UNCHANGED timers

\* rulesProcessing() returns.
EndOfRules ==
    /\ frames # <<>> /\ ~Top.open /\ Top.files = 0
    /\ frames' = Callers
    /\ Return(Top.then)
    /\ meddled' = {t \in meddled :
                     \E i \in 1..(Len(frames) - 1) : Own(frames[i], t)}
    /\ ordered' = NoOrder
    /\ UNCHANGED <<now, waiting, level, scan, failures>>

ProcessNextEvent ==
    /\ Idle /\ waiting > 0
    /\ waiting' = waiting - 1
    /\ Call(<<>>, Nothing)
    /\ ordered' = NoOrder
    /\ UNCHANGED <<now, timers, scan, meddled>>

\* runOncePerSecond() calls rulesTimers().
RulesTimers ==
    /\ Idle
    /\ scan' = 1
    /\ ordered' = NoOrder
    /\ UNCHANGED <<now, timers, waiting, frames, level, failures, meddled>>

Active(t) == ~paused[t] /\ timestamp[t] # 0

\* Mutant: a timer that is seen too late is missed.
DueNow(t) == Active(t) /\ timestamp[t] = now

Due(t) == Active(t) /\ timeOutReached(timestamp[t], now)

ScanTimer ==
    /\ frames = <<>> /\ scan # 0
    /\ scan' = (scan + 1) % (LastTimer + 1)
    /\ IF Due(scan)
       THEN /\ timestamp' = [timestamp EXCEPT ![scan] = 0]
            /\ Call(<<>>, Firing(scan))
       ELSE UNCHANGED timestamp /\ NoCall(<<>>)
    /\ ordered' = NoOrder
    /\ UNCHANGED <<now, interval, paused, waiting, meddled>>

\* Time passes, also while rules run (Delay).
Tick ==
    /\ \A t \in Timers :
         Active(t) => timePassedSince(timestamp[t], now) < MaxLate
    /\ now' = Plus(now, 1)
    /\ ordered' = NoOrder
    /\ UNCHANGED <<timers, waiting, frames, level, scan, failures, meddled>>

ReadRules == OpenFile \/ CloseFile \/ EndOfRules

Next ==
    \/ OtherCommand \/ RunLine \/ BackgroundCommand
    \/ OpenFile \/ CloseFile \/ EndOfRules
    \/ ProcessNextEvent \/ RulesTimers \/ ScanTimer
    \/ Tick

\* Rules are finite.  The scheduler runs runOncePerSecond() again and again
\* (see Scheduler), whatever commands come between.
Fairness ==
    /\ WF_vars(ReadRules) /\ WF_vars(ScanTimer) /\ WF_vars(Tick)
    /\ SF_vars(RulesTimers)

Spec == Init /\ [][Next]_vars /\ Fairness

-----------------------------------------------------------------------------
\* The type invariant, with the depth of the stack: besides the files that are
\* open at most one call that runs the background tasks at its end, and one
\* that was made from there, or was refused.
TypeOK ==
    /\ now \in ULong
    /\ timestamp \in [Timers -> ULong] /\ interval \in [Timers -> 0..HalfMax]
    /\ paused \in [Timers -> BOOLEAN]
    /\ waiting \in 0..MaxQueue
    /\ Len(frames) <= MaxNesting + 2
    /\ level \in 0..MaxNesting
    /\ scan \in 0..LastTimer
    /\ failures \in 0..MaxFailures
    /\ meddled \subseteq Timers
    /\ ordered \in [timer : {0} \cup Timers, time : {0} \cup Durations]

\* The level is the number of rules files being read, and of those that could
\* not be opened: refused, nested and empty ones leave it as it was, so that
\* rules do not stop for good for any other reason.
LevelIsNesting ==
    level = failures + Cardinality({i \in 1..Len(frames) : frames[i].open})

\* What the countdowns of the timers are, for the abstract specification.  The
\* outermost of the calls for a pause or a resumption counts: the timer is
\* paused from the moment TimerPause reads the time left.
OwnCall(t) ==
    CHOOSE i \in 1..Len(frames) :
        Own(frames[i], t) /\ \A j \in 1..(i - 1) : ~Own(frames[j], t)

Mode ==
    [t \in Timers |-> IF InOwnRules(t) THEN frames[OwnCall(t)].then.do
                      ELSE IF timestamp[t] = 0 THEN "off"
                      ELSE IF paused[t] THEN "paused" ELSE "running"]
Left ==
    [t \in Timers |-> IF InOwnRules(t) THEN frames[OwnCall(t)].then.left
                      ELSE IF timestamp[t] = 0 THEN 0
                      ELSE IF paused[t] THEN interval[t]
                      ELSE timeDiff(now, timestamp[t])]

Fired ==
    IF frames # <<>> /\ frames[1].then.do = "fire" THEN frames[1].then.timer
                                                   ELSE 0

Promised ==
    INSTANCE Countdowns WITH mode <- Mode, left <- Left, firing <- Fired

\* Timers fire once, and not before the time they were set to has been spent;
\* they do not stop for another reason than a command, with rules that pause,
\* resume, set and clear them in any order, also the timer they are run for,
\* and clocks that wrap.
ImplementsCountdowns == Promised!Spec

\* A timer that is running does not run for ever: it is seen by rulesTimers()
\* when it is due, or a command stops it or sets it anew before.
TimersFire ==
    \A t \in Timers : Active(t) ~> ~Active(t) \/ ordered.timer = t

=============================================================================
