--------------------------- MODULE QueueTimerProofs ---------------------------
(***************************************************************************)
(* The arithmetic of millis(), for every word size, and the minimum        *)
(* interval after an element was sent, for every set of intervals and      *)
(* however long nothing was sent.                                          *)
(***************************************************************************)
EXTENDS QueueTimer, TLAPS

-----------------------------------------------------------------------------
\* Arithmetic of millis().

LEMMA PlusType ==
    ASSUME NEW t \in ULong, NEW d \in ULong
    PROVE  Plus(t, d) \in ULong
BY TimeCalcAssumption, SMT DEF Plus, ULong, ULongMax

LEMMA TimeDiffType ==
    ASSUME NEW p \in ULong, NEW n \in ULong
    PROVE  timeDiff(p, n) \in Long
BY TimeCalcAssumption, SMT
DEF timeDiff, AsLong, Negated, Long, ULong, ULongMax

\* timeDiff() returns the time that has really passed, across a wrap of
\* millis(), as long as that is no more than half the range of the clock.
THEOREM TimeDiffMeasures ==
    ASSUME NEW t \in ULong, NEW d \in 0..HalfMax
    PROVE  timeDiff(t, Plus(t, d)) = d
BY TimeCalcAssumption, SMT
DEF timeDiff, Plus, AsLong, Negated, ULong, ULongMax

\* A moment still to come is at a negative distance.
THEOREM TimeDiffToCome ==
    ASSUME NEW t \in ULong, NEW d \in 1..(HalfMax + 1)
    PROVE  timeDiff(Plus(t, d), t) = -d
BY TimeCalcAssumption, SMT
DEF timeDiff, Plus, AsLong, Negated, ULong, ULongMax

\* Beyond half the range of the clock the sign is wrong: what is long past
\* counts as still to come.
THEOREM TimeDiffWraps ==
    ASSUME NEW t \in ULong, NEW d \in (HalfMax + 1)..ULongMax
    PROVE  timeDiff(t, Plus(t, d)) = d - (ULongMax + 1)
BY TimeCalcAssumption, SMT
DEF timeDiff, Plus, AsLong, Negated, ULong, ULongMax

\* timeDiff() is the only distance in Long that leads from p to n.
LEMMA TimeDiffUnique ==
    ASSUME NEW p \in ULong, NEW n \in ULong
    PROVE  \/ timeDiff(p, n) \in 0..HalfMax /\ n = Plus(p, timeDiff(p, n))
           \/ timeDiff(p, n) \in (-HalfMax - 1)..(-1)
                /\ p = Plus(n, -timeDiff(p, n))
BY TimeCalcAssumption, SMT
DEF timeDiff, Plus, AsLong, Negated, ULong, ULongMax

\* The next run of an interval timer that is due is never in the past and at
\* most one interval ahead: it neither bursts nor stalls, however late it was.
THEOREM IntervalWithinStep ==
    ASSUME NEW at \in ULong, NEW n \in ULong, NEW step \in 1..HalfMax,
           timeOutReached(at, n)
    PROVE  /\ setNextTimeInterval(at, step, n) \in ULong
           /\ timeDiff(n, setNextTimeInterval(at, step, n)) \in 0..step
<1> DEFINE next   == Plus(at, step)
           passed == timeDiff(next, n)
<1>1. next \in ULong /\ passed \in Long
  <2>1. step \in ULong
    BY TimeCalcAssumption, SMT DEF ULong, ULongMax
  <2> QED
    BY <2>1, PlusType, TimeDiffType
<1>2. timeDiff(at, n) \in 0..HalfMax
  <2>1. timeDiff(at, n) \in Long /\ timeDiff(at, n) >= 0
    BY TimeDiffType DEF timeOutReached, timePassedSince
  <2> QED
    BY <2>1, TimeCalcAssumption, SMT DEF Long
<1>3. CASE passed < 0
  <2>1. timeDiff(n, next) \in 0..step
    BY <1>2, <1>3, TimeCalcAssumption, SMT
    DEF timeDiff, Plus, AsLong, Negated, ULong, ULongMax
  <2> QED
    BY <1>1, <1>3, <2>1 DEF setNextTimeInterval, timePassedSince
<1>4. CASE passed >= 0
  <2> DEFINE d == IF passed > step THEN step ELSE step - passed
  <2>1. d \in 0..step /\ d \in 0..HalfMax /\ d \in ULong
    BY <1>1, <1>4, TimeCalcAssumption, SMT DEF Long, ULong, ULongMax
  <2>2. setNextTimeInterval(at, step, n) = Plus(n, d)
    BY <1>1, <1>4, TimeCalcAssumption, SMT
    DEF setNextTimeInterval, timePassedSince, Long
  <2> QED
    BY <2>1, <2>2, PlusType, TimeDiffMeasures
<1> QED
  BY <1>1, <1>3, <1>4, SMT DEF Long

-----------------------------------------------------------------------------
\* The timer of a queue.

TimerType ==
    /\ now \in ULong
    /\ timer \in ULong \cup {NotSet}
    /\ pending \in 0..Depth
    /\ lastSend \in ULong
    /\ minTime \in MinTimes /\ saved \in MinTimes
    /\ sending \in BOOLEAN
    /\ sending => pending > 0
    /\ elapsed \in Nat
    /\ net \in BOOLEAN
    /\ busy \in 0..MaxLate

\* When the next element is due if its interval is still to come.
DueAt(last, interval) ==
    IF Plus(last, interval) = 0 THEN 1 ELSE Plus(last, interval)

\* As long as no interval has passed, elapsed is what the clock shows since
\* lastSend, and a queue that is not empty waits for a whole interval.
SpacedInv ==
    elapsed < Shortest =>
        /\ now = Plus(lastSend, elapsed)
        /\ pending > 0 /\ ~sending =>
              \E t \in MinTimes : timer = DueAt(lastSend, t)

LEMMA ShortestExists ==
    /\ Shortest \in MinTimes
    /\ \A u \in MinTimes : Shortest <= u
BY QueueTimerAssumption DEF Shortest

LEMMA DueAtType ==
    ASSUME NEW last \in ULong, NEW t \in MinTimes
    PROVE  DueAt(last, t) \in ULong
<1>1. t \in ULong
  BY QueueTimerAssumption, TimeCalcAssumption, SMT DEF ULong, ULongMax
<1>2. 1 \in ULong
  BY TimeCalcAssumption, SMT DEF ULong, ULongMax
<1>3. Plus(last, t) \in ULong
  BY <1>1, PlusType
<1> QED
  BY <1>2, <1>3 DEF DueAt

\* Before the interval t has passed, its end is still to come.
LEMMA StillToCome ==
    ASSUME NEW last \in ULong, NEW t \in MinTimes, NEW e \in Nat, e < t
    PROVE  /\ timePassedSince(Plus(last, t), Plus(last, e)) < 0
           /\ ~timeOutReached(DueAt(last, t), Plus(last, e))
<1>1. t \in 1..HalfMax
  BY QueueTimerAssumption
<1>2. DEFINE n == Plus(last, e)
<1>3. n \in ULong /\ t - e \in 1..HalfMax /\ Plus(n, t - e) = Plus(last, t)
  BY <1>1, TimeCalcAssumption, SMT DEF Plus, ULong, ULongMax
<1>4. timeDiff(Plus(last, t), n) = -(t - e)
  <2> HIDE DEF n
  <2> QED
    BY <1>3, TimeDiffToCome, TimeCalcAssumption, SMT
<1>5. /\ timePassedSince(Plus(last, t), n) < 0
      /\ ~(timeDiff(Plus(last, t), n) >= 0)
  BY <1>1, <1>4, SMT DEF timePassedSince
<1>6. ASSUME Plus(last, t) = 0
      PROVE  ~(timeDiff(1, n) >= 0)
  <2>1. 1 = Plus(n, t - e + 1) /\ t - e + 1 \in 1..(HalfMax + 1)
    BY <1>1, <1>6, TimeCalcAssumption, SMT DEF Plus, ULong, ULongMax
  <2>2. timeDiff(Plus(n, t - e + 1), n) = -(t - e + 1)
    <3> HIDE DEF n
    <3> QED
      BY <1>3, <2>1, TimeDiffToCome
  <2> QED
    BY <1>1, <2>1, <2>2, SMT
<1> QED
  BY <1>5, <1>6 DEF timePassedSince, timeOutReached, DueAt

\* Scheduling a queue before its interval has passed.
LEMMA ScheduleWaits ==
    ASSUME TimerType, NEW t, NEW last \in ULong, NEW interval \in MinTimes,
           NEW e \in Nat, e < interval, now = Plus(last, e),
           NEW size \in Nat, size > 0
    PROVE  Schedule(t, size, last, interval) = DueAt(last, interval)
<1>1. ~(timePassedSince(Plus(last, interval), now) > 0)
  <2>1. timePassedSince(Plus(last, interval), now) < 0
    BY StillToCome
  <2>2. Plus(last, interval) \in ULong
    <3>1. interval \in ULong
      BY QueueTimerAssumption, TimeCalcAssumption, SMT DEF ULong, ULongMax
    <3> QED
      BY <3>1, PlusType
  <2>3. timePassedSince(Plus(last, interval), now) \in Long
    BY <2>2, TimeDiffType DEF timePassedSince, TimerType
  <2> QED
    BY <2>1, <2>3, TimeCalcAssumption, SMT DEF Long
<1> QED
  BY <1>1 DEF Schedule, getNextScheduleTime, DueAt

LEMMA ScheduleType ==
    ASSUME TimerType, NEW t \in ULong \cup {NotSet}, NEW last \in ULong,
           NEW interval \in MinTimes, NEW size \in Nat
    PROVE  /\ Schedule(t, size, last, interval) \in ULong \cup {NotSet}
           /\ t \in ULong \/ size > 0
                => Schedule(t, size, last, interval) \in ULong
<1>1. interval \in ULong /\ 1 \in ULong
  BY QueueTimerAssumption, TimeCalcAssumption, SMT DEF ULong, ULongMax
<1>2. Plus(last, interval) \in ULong /\ now \in ULong
  BY <1>1, PlusType DEF TimerType
<1>3. getNextScheduleTime(last, interval) \in ULong
  BY <1>1, <1>2 DEF getNextScheduleTime
<1> QED
  BY <1>3, SMT DEF Schedule

-----------------------------------------------------------------------------
LEMMA InitTimer == Init => TimerType /\ SpacedInv
<1> SUFFICES ASSUME Init PROVE TimerType /\ SpacedInv
  OBVIOUS
<1>1. 0 \in ULong /\ Plus(0, 0) = 0
  BY TimeCalcAssumption, SMT DEF ULong, ULongMax, Plus
<1>2. TimerType
  <2>1. 0 \in 0..Depth /\ 0 \in 0..MaxLate
    BY QueueTimerAssumption, SMT
  <2> QED
    BY <1>1, <2>1 DEF Init, TimerType
<1>3. now = Plus(lastSend, elapsed) /\ ~(pending > 0)
  BY <1>1, SMT DEF Init
<1> QED
  BY <1>2, <1>3 DEF SpacedInv

LEMMA FallbackType ==
    ASSUME TimerType, Fire
    PROVE  FallbackTimer \in ULong
BY IntervalWithinStep, QueueTimerAssumption, TimeCalcAssumption
DEF TimerType, Fire, FallbackTimer

LEMMA TimerTypeStep == TimerType /\ [Next]_vars => TimerType'
<1> SUFFICES ASSUME TimerType, [Next]_vars PROVE TimerType'
  OBVIOUS
<1>a. 0..Depth \subseteq Nat
  BY QueueTimerAssumption, SMT
<1>1. CASE Tick
  <2>1. Plus(now, 1) \in ULong
    BY PlusType, TimeCalcAssumption, SMT DEF TimerType, ULong, ULongMax
  <2>2. busy' \in 0..MaxLate
    <3>1. MaxLate \in Nat /\ busy \in Nat
      BY QueueTimerAssumption, TimeCalcAssumption, SMT DEF TimerType
    <3>2. CASE sending
      BY <1>1, <3>1, <3>2, SMT DEF Tick
    <3>3. CASE ~sending
      BY <1>1, <3>1, <3>3, SMT DEF Tick
    <3> QED
      BY <3>2, <3>3
  <2> QED
    BY <1>1, <2>1, <2>2 DEF Tick, TimerType
<1>2. CASE Add
  <2>1. /\ pending' \in {pending, pending + 1} /\ pending' <= Depth
        /\ timer' = Schedule(timer, pending', lastSend, minTime)
        /\ UNCHANGED <<now, lastSend, minTime, saved, net, sending, elapsed,
                       busy>>
    BY <1>2 DEF Add
  <2>2. pending' \in 0..Depth /\ (sending' => pending' > 0)
    BY <2>1, QueueTimerAssumption, SMT DEF TimerType
  <2>3. timer' \in ULong \cup {NotSet}
    BY <1>a, <2>1, <2>2, ScheduleType DEF TimerType
  <2> QED
    BY <2>1, <2>2, <2>3 DEF TimerType
<1>b. Fire => pending' \in 0..Depth
  BY QueueTimerAssumption, SMT DEF Fire, TimerType
<1>3. CASE NothingQueued
  BY <1>b, <1>3, FallbackType DEF NothingQueued, Fire, TimerType
<1>4. CASE NotReady
  <2>1. /\ pending' \in 0..Depth /\ pending' > 0 /\ minTime' \in MinTimes
        /\ timer' = Schedule(FallbackTimer, pending', lastSend, minTime')
        /\ UNCHANGED <<now, lastSend, saved, net, sending, elapsed, busy>>
    BY <1>b, <1>4 DEF NotReady, Fire, TimerType
  <2>2. FallbackTimer \in ULong \cup {NotSet}
    BY <1>4, FallbackType DEF NotReady
  <2>3. timer' \in ULong \cup {NotSet}
    BY <1>a, <2>1, <2>2, ScheduleType DEF TimerType
  <2> QED
    BY <2>1, <2>3 DEF TimerType
<1>5. CASE StartSend
  <2>1. 0 \in 0..MaxLate
    BY QueueTimerAssumption, SMT
  <2> QED
    BY <1>b, <1>5, <2>1, FallbackType DEF StartSend, Fire, TimerType
<1>6. CASE FinishSend
  <2>1. PICK done \in BOOLEAN : MarkProcessed(done)
    BY <1>6 DEF FinishSend
  <2>2. /\ sending /\ sending' = FALSE /\ busy' = 0
        /\ timer' = Schedule(timer, pending', lastSend', minTime)
        /\ UNCHANGED <<now, minTime, saved, net>>
    BY <1>6 DEF FinishSend
  <2>3. /\ pending' \in 0..Depth /\ lastSend' \in ULong /\ elapsed' \in Nat
        /\ busy' \in 0..MaxLate
    BY <2>1, <2>2, QueueTimerAssumption, SMT DEF MarkProcessed, TimerType
  <2>4. timer' \in ULong \cup {NotSet}
    BY <1>a, <2>2, <2>3, ScheduleType DEF TimerType
  <2> QED
    BY <2>2, <2>3, <2>4 DEF TimerType
<1>7. CASE SaveSettings
  BY <1>7 DEF SaveSettings, TimerType
<1>8. CASE NetworkChange
  BY <1>8 DEF NetworkChange, TimerType
<1>9. CASE UNCHANGED vars
  BY <1>9 DEF vars, TimerType
<1> QED
  BY <1>1, <1>2, <1>3, <1>4, <1>5, <1>6, <1>7, <1>8, <1>9 DEF Next

-----------------------------------------------------------------------------
\* As long as no interval has passed, the timer of a queue that is not empty is
\* not due.
LEMMA NotYet ==
    ASSUME TimerType, SpacedInv, Fire, elapsed < Shortest
    PROVE  pending' = 0
<1> SUFFICES ASSUME pending > 0 PROVE FALSE
  BY DEF Fire, TimerType
<1>1. PICK t \in MinTimes : timer = DueAt(lastSend, t)
  BY DEF SpacedInv, Fire
<1>2. elapsed < t
  BY ShortestExists, QueueTimerAssumption, SMT DEF TimerType
<1> QED
  BY <1>1, <1>2, StillToCome DEF SpacedInv, Fire, TimerType

\* What holds of a timer that is scheduled before an interval has passed.
LEMMA ScheduledEarly ==
    ASSUME TimerType, NEW t, NEW last \in ULong, NEW interval \in MinTimes,
           NEW e \in Nat, e < Shortest, now = Plus(last, e),
           NEW size \in Nat, size > 0
    PROVE  \E u \in MinTimes :
              Schedule(t, size, last, interval) = DueAt(last, u)
<1>1. e < interval
  BY ShortestExists, QueueTimerAssumption, SMT
<1> QED
  BY <1>1, ScheduleWaits

LEMMA SpacedStep == TimerType /\ SpacedInv /\ [Next]_vars => SpacedInv'
<1> SUFFICES ASSUME TimerType, SpacedInv, [Next]_vars, elapsed' < Shortest
             PROVE  /\ now' = Plus(lastSend', elapsed')
                    /\ pending' > 0 /\ ~sending' =>
                         \E t \in MinTimes : timer' = DueAt(lastSend', t)
  BY DEF SpacedInv
<1>1. CASE Tick
  <2>1. /\ now' = Plus(now, 1) /\ elapsed' = elapsed + 1
        /\ UNCHANGED <<timer, pending, lastSend, sending>>
    BY <1>1 DEF Tick
  <2>2. elapsed < Shortest /\ elapsed + 1 <= HalfMax
    BY <2>1, ShortestExists, QueueTimerAssumption, TimeCalcAssumption, SMT
    DEF TimerType
  <2>3. now = Plus(lastSend, elapsed)
    BY <2>2 DEF SpacedInv
  <2>4. now' = Plus(lastSend', elapsed')
    BY <2>1, <2>2, <2>3, TimeCalcAssumption, SMT
    DEF Plus, TimerType, ULong, ULongMax
  <2> QED
    BY <2>1, <2>2, <2>4 DEF SpacedInv
<1>2. CASE Add
  <2>1. /\ timer' = Schedule(timer, pending', lastSend, minTime)
        /\ UNCHANGED <<now, lastSend, minTime, saved, sending, elapsed>>
    BY <1>2 DEF Add
  <2>2. pending' \in Nat
    BY <1>2 DEF Add, TimerType
  <2>3. now = Plus(lastSend, elapsed)
    BY <2>1 DEF SpacedInv
  <2>4. pending' > 0 => \E t \in MinTimes : timer' = DueAt(lastSend, t)
    BY <2>1, <2>2, <2>3, ScheduledEarly DEF TimerType
  <2> QED
    BY <2>1, <2>3, <2>4
<1>3. CASE NothingQueued
  <2>1. pending' = 0 /\ UNCHANGED <<now, lastSend, elapsed>>
    BY <1>3 DEF NothingQueued, Fire
  <2> QED
    BY <2>1, SMT DEF SpacedInv
<1>4. CASE NotReady
  <2>1. Fire /\ pending' > 0 /\ UNCHANGED elapsed
    BY <1>4 DEF NotReady, Fire
  <2>2. pending' = 0
    BY <2>1, NotYet
  <2> QED
    BY <2>1, <2>2, SMT
<1>5. CASE StartSend
  <2>1. Fire /\ pending' > 0 /\ UNCHANGED elapsed
    BY <1>5 DEF StartSend, Fire
  <2>2. pending' = 0
    BY <2>1, NotYet
  <2> QED
    BY <2>1, <2>2, SMT
<1>6. CASE FinishSend
  <2>1. PICK done \in BOOLEAN : MarkProcessed(done)
    BY <1>6 DEF FinishSend
  <2>2. /\ sending
        /\ timer' = Schedule(timer, pending', lastSend', minTime)
        /\ UNCHANGED <<now, minTime>>
    BY <1>6 DEF FinishSend
  <2>3. pending' \in Nat /\ lastSend' \in ULong /\ elapsed' \in Nat
    BY <2>1, <2>2, SMT DEF MarkProcessed, TimerType
  <2>4. now = Plus(lastSend', elapsed')
    <3>1. CASE done
      <4>1. lastSend' = now /\ elapsed' = 0
        BY <2>1, <3>1 DEF MarkProcessed
      <4> QED
        BY <4>1, TimeCalcAssumption, SMT DEF Plus, TimerType, ULong, ULongMax
    <3>2. CASE ~done
      BY <2>1, <3>2 DEF MarkProcessed, SpacedInv
    <3> QED
      BY <3>1, <3>2
  <2>5. pending' > 0 => \E t \in MinTimes : timer' = DueAt(lastSend', t)
    BY <2>2, <2>3, <2>4, ScheduledEarly DEF TimerType
  <2> QED
    BY <2>2, <2>4, <2>5
<1>7. CASE SaveSettings
  BY <1>7 DEF SaveSettings, SpacedInv
<1>8. CASE NetworkChange
  BY <1>8 DEF NetworkChange, SpacedInv
<1>9. CASE UNCHANGED vars
  BY <1>9 DEF vars, SpacedInv
<1> QED
  BY <1>1, <1>2, <1>3, <1>4, <1>5, <1>6, <1>7, <1>8, <1>9 DEF Next

LEMMA StartsSpaced ==
    TimerType /\ SpacedInv /\ [Next]_vars
        => [StartSend => elapsed >= Shortest]_vars
<1> SUFFICES ASSUME TimerType, SpacedInv, StartSend PROVE elapsed >= Shortest
  OBVIOUS
<1>1. Fire /\ pending' > 0
  BY DEF StartSend
<1>2. ~(elapsed < Shortest)
  BY <1>1, NotYet, SMT
<1> QED
  BY <1>2, ShortestExists, QueueTimerAssumption, SMT DEF TimerType

\* The type invariant: the queue stays within its depth, and every time the
\* timer is set to is a value of millis(), wherever it wraps.
THEOREM TypeCorrect == Spec => []TypeOK
<1>1. TimerType => TypeOK
  BY DEF TimerType, TypeOK
<1> QED
  BY <1>1, InitTimer, TimerTypeStep, PTL DEF Spec

\* After markProcessed(true) the process function does not send before the
\* shortest interval in use has passed (getNextScheduleTime()), whatever is
\* queued, given up or saved in between, wherever millis() wraps.
THEOREM Spaced == Spec => SpacedAfterSuccess
<1>1. Init => TimerType /\ SpacedInv
  BY InitTimer
<1>2. TimerType /\ SpacedInv /\ [Next]_vars => (TimerType /\ SpacedInv)'
  BY TimerTypeStep, SpacedStep
<1>3. TimerType /\ SpacedInv /\ [Next]_vars
        => [StartSend => elapsed >= Shortest]_vars
  BY StartsSpaced
<1> QED
  BY <1>1, <1>2, <1>3, PTL DEF Spec, SpacedAfterSuccess

-----------------------------------------------------------------------------
\* A queued element is served in time, if the clock can measure how long
\* nothing was sent.

Ample == Longest < HalfMax /\ MaxIdle < HalfMax

Most == IF Longest > MaxIdle THEN Longest ELSE MaxIdle

\* A queue that waits is due, or will be when its interval has passed (one msec
\* later if that would be at 0).
Waiting ==
    /\ timer \in ULong
    /\ \/ timePassedSince(timer, now) \in 0..MaxLate
       \/ now = 0 /\ timer = 1
       \/ \E t \in MinTimes : timer = DueAt(lastSend, t) /\ elapsed <= t

WaitInv == pending > 0 /\ ~sending => Waiting

\* The clock shows what has passed; time only goes on beyond its bounds for a
\* queue that waits for the msec after 0.
ElapsedInv ==
    /\ now = Plus(lastSend, elapsed)
    /\ elapsed <= Most + 1
    /\ elapsed > Most => now = 1 /\ (pending > 0 /\ ~sending => timer = 1)

LEMMA LongestExists ==
    /\ Longest \in MinTimes
    /\ \A u \in MinTimes : u <= Longest
BY QueueTimerAssumption DEF Longest

LEMMA MostType ==
    ASSUME Ample
    PROVE  /\ Most \in 0..(HalfMax - 1) /\ MaxIdle <= Most
           /\ \A t \in MinTimes : t \in 1..HalfMax /\ t <= Most
BY LongestExists, QueueTimerAssumption, TimeCalcAssumption, SMT
DEF Ample, Most

\* What the clock shows of two times that passed since the same moment.
LEMMA PassedBetween ==
    ASSUME NEW last \in ULong, NEW e \in 0..HalfMax, NEW t \in 0..HalfMax
    PROVE  /\ timePassedSince(Plus(last, t), Plus(last, e)) = e - t
           /\ timeDiff(Plus(last, e), Plus(last, t)) = t - e
BY TimeCalcAssumption, SMT
DEF timePassedSince, timeDiff, Plus, AsLong, Negated, ULong, ULongMax

LEMMA TickPasses ==
    ASSUME NEW p \in ULong, NEW n \in ULong,
           timePassedSince(p, n) \in 0..(HalfMax - 1)
    PROVE  timePassedSince(p, Plus(n, 1)) = timePassedSince(p, n) + 1
BY TimeCalcAssumption, SMT
DEF timePassedSince, timeDiff, Plus, AsLong, Negated, ULong, ULongMax

LEMMA NextMsec ==
    ASSUME NEW n \in ULong
    PROVE  /\ Plus(n, 1) \in ULong /\ Plus(n, 1) # n
           /\ timePassedSince(n, n) = 0
           /\ timePassedSince(Plus(n, 1), n) = -1
           /\ Plus(0, 1) = 1
           /\ timeDiff(0, 1) = 1
BY TimeCalcAssumption, SMT
DEF timePassedSince, timeDiff, Plus, AsLong, Negated, ULong, ULongMax

LEMMA PassedIsBehind ==
    ASSUME NEW p \in ULong, NEW n \in ULong,
           timePassedSince(p, n) \in 0..HalfMax
    PROVE  timeDiff(n, p) = -timePassedSince(p, n)
BY TimeCalcAssumption, SMT
DEF timePassedSince, timeDiff, AsLong, Negated, ULong, ULongMax

\* What a queue waits for once it is scheduled.
LEMMA ScheduleResult ==
    ASSUME TimerType, NEW t, NEW last \in ULong, NEW interval \in MinTimes,
           NEW e \in 0..HalfMax, now = Plus(last, e),
           NEW size \in Nat, size > 0
    PROVE  Schedule(t, size, last, interval) =
             IF e <= interval THEN DueAt(last, interval)
             ELSE IF now = 0 THEN 1 ELSE now
<1>1. interval \in 0..HalfMax /\ interval \in Nat
  BY QueueTimerAssumption, TimeCalcAssumption, SMT
<1>2. timePassedSince(Plus(last, interval), now) = e - interval
  BY <1>1, PassedBetween
<1>3. timePassedSince(Plus(last, interval), now) > 0 <=> ~(e <= interval)
  BY <1>1, <1>2, SMT
<1> QED
  BY <1>3, SMT DEF Schedule, getNextScheduleTime, DueAt

\* Each action that schedules the queue re-establishes both invariants.
LEMMA Scheduled ==
    ASSUME Ample, TimerType, NEW t, NEW interval \in MinTimes,
           lastSend' \in ULong, elapsed' \in Nat, now' = now,
           now = Plus(lastSend', elapsed'), elapsed' <= Most + 1,
           elapsed' > Most => now = 1,
           pending' \in Nat, pending' > 0,
           timer' = Schedule(t, pending', lastSend', interval)
    PROVE  Waiting' /\ ElapsedInv'
<1>1. elapsed' \in 0..HalfMax /\ interval \in Nat /\ interval <= Most
  BY MostType, TimeCalcAssumption, SMT
<1>2. timer' = IF elapsed' <= interval THEN DueAt(lastSend', interval)
               ELSE IF now = 0 THEN 1 ELSE now
  BY <1>1, ScheduleResult
<1>3. now \in ULong /\ 1 \in ULong
  BY TimeCalcAssumption, SMT DEF TimerType, ULong, ULongMax
<1>4. timer' \in ULong
  BY <1>2, <1>3, DueAtType
<1>5. CASE elapsed' <= interval
  <2>1. Waiting'
    BY <1>2, <1>4, <1>5 DEF Waiting
  <2>2. ~(elapsed' > Most)
    BY <1>1, <1>5, MostType, SMT
  <2> QED
    BY <2>1, <2>2 DEF ElapsedInv
<1>6. CASE ~(elapsed' <= interval)
  <2>1. CASE now = 0
    <3>1. ~(elapsed' > Most)
      BY <2>1, SMT
    <3> QED
      BY <1>2, <1>4, <1>6, <2>1, <3>1 DEF Waiting, ElapsedInv
  <2>2. CASE now # 0
    <3>1. timer' = now /\ timePassedSince(timer', now') = 0
      BY <1>2, <1>3, <1>6, <2>2, NextMsec
    <3>2. 0 \in 0..MaxLate
      BY QueueTimerAssumption, TimeCalcAssumption, SMT
    <3>3. Waiting'
      BY <1>4, <3>1, <3>2 DEF Waiting
    <3> QED
      BY <3>1, <3>3 DEF ElapsedInv
  <2> QED
    BY <2>1, <2>2
<1> QED
  BY <1>5, <1>6

LEMMA WaitTick ==
    ASSUME Ample, TimerType, WaitInv, ElapsedInv, Tick
    PROVE  WaitInv' /\ ElapsedInv'
<1>1. /\ now' = Plus(now, 1) /\ elapsed' = elapsed + 1
      /\ UNCHANGED <<timer, pending, lastSend, sending>>
      /\ now \in ULong /\ lastSend \in ULong /\ elapsed \in Nat
  BY DEF Tick, TimerType
<1>2. /\ Plus(now, 1) \in ULong /\ Plus(now, 1) # now
      /\ timePassedSince(now, now) = 0
      /\ timePassedSince(Plus(now, 1), now) = -1
      /\ Plus(0, 1) = 1
  BY <1>1, NextMsec
<1>3. /\ Most \in 0..(HalfMax - 1) /\ MaxIdle <= Most /\ MaxIdle \in Nat
      /\ MaxLate \in 1..HalfMax
  BY MostType, QueueTimerAssumption
<1>4. now' = Plus(lastSend, elapsed + 1)
  BY <1>1, <1>3, TimeCalcAssumption, SMT
  DEF ElapsedInv, Plus, ULong, ULongMax
<1>5. 0 \in 0..MaxLate /\ 1 \in 0..MaxLate /\ 1 \in ULong
  BY <1>3, TimeCalcAssumption, SMT DEF ULong, ULongMax
\* A queue that waits for an interval that ends now.
<1>6. ASSUME NEW t \in MinTimes, timer = DueAt(lastSend, t), elapsed <= t
      PROVE  \/ elapsed + 1 <= t
             \/ now = 0 /\ timer = 1
             \/ now = timer
  <2>1. t \in Nat
    BY QueueTimerAssumption, SMT
  <2>2. CASE elapsed = t
    BY <1>6, <2>2 DEF DueAt, ElapsedInv
  <2>3. CASE elapsed # t
    BY <1>1, <1>6, <2>1, <2>3, SMT
  <2> QED
    BY <2>2, <2>3
<1>7. ASSUME pending > 0, ~sending
      PROVE  Waiting'
  <2>1. Waiting
    BY <1>7 DEF WaitInv
  <2>2. timePassedSince(timer, now) < MaxLate
    <3>1. timer # NotSet
      BY <2>1, SMT DEF Waiting, NotSet, ULong
    <3> QED
      BY <1>7, <3>1 DEF Tick
  <2>3. CASE timePassedSince(timer, now) \in 0..MaxLate
    <3>1. timePassedSince(timer, now) \in 0..(HalfMax - 1)
      BY <1>3, <2>2, <2>3, TimeCalcAssumption, SMT
    <3>2. timePassedSince(timer, now') = timePassedSince(timer, now) + 1
      BY <1>1, <2>1, <3>1, TickPasses DEF Waiting
    <3>3. timePassedSince(timer, now') \in 0..MaxLate
      BY <1>3, <2>2, <2>3, <3>2, SMT
    <3> QED
      BY <1>1, <2>1, <3>3 DEF Waiting
  <2>4. ASSUME now = 0, timer = 1 PROVE Waiting'
    <3>1. timePassedSince(timer', now') = 0
      BY <1>1, <1>2, <1>5, <2>4, NextMsec
    <3> QED
      BY <1>1, <1>5, <2>4, <3>1 DEF Waiting
  <2>5. ASSUME NEW t \in MinTimes, timer = DueAt(lastSend, t), elapsed <= t
        PROVE  Waiting'
    <3>1. CASE elapsed + 1 <= t
      BY <1>1, <2>1, <2>5, <3>1 DEF Waiting
    <3>2. CASE now = timer
      <4>1. 0 \in 0..(HalfMax - 1)
        BY TimeCalcAssumption, SMT
      <4>2. timePassedSince(timer, now') = 1
        BY <1>1, <1>2, <3>2, <4>1, TickPasses
      <4> QED
        BY <1>1, <1>5, <2>1, <4>2 DEF Waiting
    <3> QED
      BY <1>6, <2>4, <2>5, <3>1, <3>2
  <2> QED
    BY <2>1, <2>3, <2>4, <2>5 DEF Waiting
<1>8. /\ elapsed + 1 <= Most + 1
      /\ elapsed + 1 > Most => now' = 1 /\ (pending > 0 /\ ~sending => timer = 1)
  <2>1. CASE elapsed < MaxIdle
    BY <1>1, <1>3, <2>1, SMT
  <2>2. ASSUME now = 0, timer = 1
        PROVE  elapsed <= Most /\ now' = 1
    BY <1>1, <1>2, <1>3, <2>2, SMT DEF ElapsedInv
  <2>3. CASE pending > 0 /\ ~sending /\ timer = Plus(now, 1)
    <3>1. \/ now = 0 /\ timer = 1
          \/ \E t \in MinTimes : timer = DueAt(lastSend, t) /\ elapsed <= t
      <4>1. Waiting
        BY <2>3 DEF WaitInv
      <4>2. ~(timePassedSince(timer, now) \in 0..MaxLate)
        BY <1>2, <1>3, <2>3, SMT
      <4> QED
        BY <4>1, <4>2 DEF Waiting
    <3>2. ASSUME NEW t \in MinTimes, timer = DueAt(lastSend, t), elapsed <= t
          PROVE  elapsed + 1 <= t \/ (now = 0 /\ timer = 1)
      BY <1>2, <1>6, <2>3, <3>2
    <3>3. CASE now = 0 /\ timer = 1
      BY <1>1, <1>3, <2>2, <3>3, SMT
    <3>4. ASSUME NEW t \in MinTimes, elapsed + 1 <= t
          PROVE  elapsed + 1 <= Most
      BY <1>1, <1>3, <3>4, MostType, SMT
    <3>5. CASE elapsed + 1 <= Most
      BY <1>1, <1>3, <3>5, SMT
    <3> QED
      BY <3>1, <3>2, <3>3, <3>4, <3>5
  <2> QED
    BY <2>1, <2>3 DEF Tick
<1> QED
  BY <1>1, <1>4, <1>7, <1>8 DEF WaitInv, ElapsedInv

LEMMA WaitStep ==
    ASSUME Ample
    PROVE  TimerType /\ WaitInv /\ ElapsedInv /\ [Next]_vars
             => WaitInv' /\ ElapsedInv'
<1> SUFFICES ASSUME TimerType, WaitInv, ElapsedInv, [Next]_vars
             PROVE  WaitInv' /\ ElapsedInv'
  OBVIOUS
<1>0. /\ now \in ULong /\ lastSend \in ULong /\ elapsed \in Nat
      /\ minTime \in MinTimes /\ saved \in MinTimes
      /\ now = Plus(lastSend, elapsed) /\ elapsed <= Most + 1
      /\ elapsed > Most => now = 1
      /\ TimerType'
  BY TimerTypeStep DEF TimerType, ElapsedInv
<1>a. pending' \in Nat /\ (~(pending' > 0) <=> pending' = 0)
  BY <1>0, QueueTimerAssumption, SMT DEF TimerType
\* The queue is not scheduled, since nothing waits.
<1>b. ASSUME UNCHANGED <<now, lastSend, elapsed>>,
             pending' = 0 \/ sending'
      PROVE  WaitInv' /\ ElapsedInv'
  BY <1>0, <1>a, <1>b DEF WaitInv, ElapsedInv
<1>c. ASSUME UNCHANGED <<now, lastSend, elapsed>>, pending' > 0, NEW t,
             NEW interval \in MinTimes,
             timer' = Schedule(t, pending', lastSend, interval)
      PROVE  WaitInv' /\ ElapsedInv'
  <2>1. timer' = Schedule(t, pending', lastSend', interval)
    BY <1>c
  <2> QED
    BY <1>0, <1>a, <1>c, <2>1, Scheduled DEF WaitInv
<1>d. ASSUME UNCHANGED <<now, timer, pending, lastSend, sending, elapsed>>
      PROVE  WaitInv' /\ ElapsedInv'
  BY <1>d DEF WaitInv, ElapsedInv, Waiting
<1>1. CASE Tick
  BY <1>1, WaitTick
<1>2. CASE Add
  <2>1. /\ timer' = Schedule(timer, pending', lastSend, minTime)
        /\ UNCHANGED <<now, lastSend, elapsed>>
    BY <1>2 DEF Add
  <2>2. CASE pending' > 0
    BY <1>0, <1>c, <2>1, <2>2
  <2>3. CASE pending' = 0
    BY <1>b, <2>1, <2>3
  <2> QED
    BY <1>a, <2>2, <2>3
<1>3. CASE NothingQueued
  BY <1>b, <1>3 DEF NothingQueued, Fire
<1>4. CASE NotReady
  <2>1. /\ timer' = Schedule(FallbackTimer, pending', lastSend, minTime')
        /\ pending' > 0 /\ minTime' \in MinTimes
        /\ UNCHANGED <<now, lastSend, elapsed>>
    BY <1>0, <1>4 DEF NotReady, Fire, TimerType
  <2> QED
    BY <1>c, <2>1
<1>5. CASE StartSend
  BY <1>b, <1>5 DEF StartSend, Fire
<1>6. CASE FinishSend
  <2>1. PICK done \in BOOLEAN : MarkProcessed(done)
    BY <1>6 DEF FinishSend
  <2>2. /\ timer' = Schedule(timer, pending', lastSend', minTime)
        /\ now' = now
    BY <1>6 DEF FinishSend
  <2>3. /\ lastSend' \in ULong /\ elapsed' \in Nat
        /\ now = Plus(lastSend', elapsed') /\ elapsed' <= Most + 1
        /\ elapsed' > Most => now = 1
    <3>1. CASE done
      <4>1. lastSend' = now /\ elapsed' = 0
        BY <2>1, <3>1 DEF MarkProcessed
      <4>2. Plus(now, 0) = now /\ 0 <= Most + 1 /\ ~(0 > Most)
        BY <1>0, MostType, TimeCalcAssumption, SMT DEF Plus, ULong, ULongMax
      <4> QED
        BY <1>0, <4>1, <4>2
    <3>2. CASE ~done
      BY <1>0, <2>1, <3>2 DEF MarkProcessed
    <3> QED
      BY <3>1, <3>2
  <2>4. CASE pending' > 0
    BY <1>0, <1>a, <2>2, <2>3, <2>4, Scheduled DEF WaitInv
  <2>5. CASE pending' = 0
    BY <1>a, <2>2, <2>3, <2>5 DEF WaitInv, ElapsedInv
  <2> QED
    BY <1>a, <2>4, <2>5
<1>7. CASE SaveSettings
  BY <1>d, <1>7 DEF SaveSettings
<1>8. CASE NetworkChange
  BY <1>d, <1>8 DEF NetworkChange
<1>9. CASE UNCHANGED vars
  BY <1>d, <1>9 DEF vars
<1> QED
  BY <1>1, <1>2, <1>3, <1>4, <1>5, <1>6, <1>7, <1>8, <1>9 DEF Next

LEMMA WaitInit == ASSUME Ample PROVE Init => WaitInv /\ ElapsedInv
<1> SUFFICES ASSUME Init PROVE WaitInv /\ ElapsedInv
  OBVIOUS
<1>1. /\ Plus(0, 0) = 0 /\ 0 <= Most + 1 /\ ~(0 > Most)
  BY MostType, TimeCalcAssumption, SMT DEF Plus, ULong, ULongMax
<1>2. ~(pending > 0)
  BY SMT DEF Init
<1> QED
  BY <1>1, <1>2 DEF Init, WaitInv, ElapsedInv

LEMMA WaitingServed ==
    ASSUME Ample, TimerType, WaitInv, ElapsedInv
    PROVE  ServedInTime
<1> SUFFICES ASSUME pending > 0, ~sending
             PROVE  /\ timer # NotSet
                    /\ \/ timeDiff(now, timer) <= 1
                       \/ timeDiff(now, timer) <= Longest - elapsed + 1
  BY DEF ServedInTime
<1>1. Waiting /\ timer \in ULong /\ now \in ULong
  BY DEF WaitInv, Waiting, TimerType
<1>2. timer # NotSet
  BY <1>1, SMT DEF NotSet, ULong
<1>3. CASE timePassedSince(timer, now) \in 0..MaxLate
  <2>1. timePassedSince(timer, now) \in 0..HalfMax
    BY <1>3, QueueTimerAssumption, TimeCalcAssumption, SMT
  <2>2. timeDiff(now, timer) = -timePassedSince(timer, now)
    BY <1>1, <2>1, PassedIsBehind
  <2>3. timeDiff(now, timer) <= 1
    BY <2>1, <2>2, SMT
  <2> QED
    BY <1>2, <2>3
<1>4. CASE now = 0 /\ timer = 1
  BY <1>1, <1>2, <1>4, NextMsec, SMT
<1>5. ASSUME NEW t \in MinTimes, timer = DueAt(lastSend, t), elapsed <= t
      PROVE  timeDiff(now, timer) <= Longest - elapsed + 1
  <2>1. /\ t \in 1..HalfMax /\ t <= Longest /\ Longest \in 1..HalfMax
        /\ Longest < HalfMax /\ elapsed \in 0..HalfMax /\ elapsed \in Nat
    BY <1>5, LongestExists, QueueTimerAssumption, TimeCalcAssumption, SMT
    DEF Ample, TimerType
  <2>2. lastSend \in ULong /\ now = Plus(lastSend, elapsed)
    BY DEF TimerType, ElapsedInv
  <2>3. CASE Plus(lastSend, t) # 0
    <3>1. timeDiff(now, timer) = t - elapsed
      <4>1. t \in 0..HalfMax
        BY <2>1, SMT
      <4> QED
        BY <1>5, <2>1, <2>2, <2>3, <4>1, PassedBetween DEF DueAt
    <3> QED
      BY <2>1, <3>1, SMT
  <2>4. CASE Plus(lastSend, t) = 0
    <3>1. timer = Plus(lastSend, t + 1) /\ t + 1 \in 0..HalfMax
      BY <1>5, <2>1, <2>2, <2>4, TimeCalcAssumption, SMT
      DEF DueAt, Plus, ULong, ULongMax
    <3>2. timeDiff(now, timer) = t + 1 - elapsed
      BY <2>1, <2>2, <3>1, PassedBetween
    <3> QED
      BY <2>1, <3>2, SMT
  <2> QED
    BY <2>3, <2>4
<1> QED
  BY <1>1, <1>2, <1>3, <1>4, <1>5 DEF Waiting

\* A queued element does not wait longer than the interval demands, whatever
\* is queued, sent, given up or saved, across wraps of millis(), as long as
\* half the range of the clock exceeds the intervals and the time in which
\* nothing is sent.
THEOREM InTime ==
    ASSUME Ample PROVE Spec => []ServedInTime
BY InitTimer, TimerTypeStep, WaitInit, WaitStep, WaitingServed, PTL DEF Spec

=============================================================================
