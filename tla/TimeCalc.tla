------------------------------- MODULE TimeCalc -------------------------------
(***************************************************************************)
(* The arithmetic of millis(): time stamps are unsigned longs that wrap    *)
(* (after 49.7 days), their differences are signed longs.                  *)
(***************************************************************************)
EXTENDS Integers

CONSTANT HalfMax  \* half_max_unsigned_long, 2^31 - 1 in the code

ASSUME TimeCalcAssumption == HalfMax \in Nat \ {0}

ULongMax == 2 * HalfMax + 1
ULong    == 0..ULongMax
Long     == (-HalfMax - 1)..HalfMax

\* Addition of unsigned longs.
Plus(t, d) == IF t + d > ULongMax THEN t + d - (ULongMax + 1) ELSE t + d

\* static_cast<long> of an unsigned long, and the negation of a long.
AsLong(u)  == IF u <= HalfMax THEN u ELSE u - (ULongMax + 1)
Negated(x) == IF x = -HalfMax - 1 THEN x ELSE -x

\* The signed time from prev to next.
timeDiff(prev, next) ==
    LET ahead  == next - prev
        behind == prev - next
    IN  IF next >= prev
          THEN IF ahead <= HalfMax
                 THEN ahead
                 ELSE Negated(AsLong(ULongMax - next + prev + 1))
          ELSE IF behind <= HalfMax
                 THEN Negated(behind)
                 ELSE AsLong(ULongMax - prev + next + 1)

timePassedSince(timestamp, now) == timeDiff(timestamp, now)

timeOutReached(timer, now) == timePassedSince(timer, now) >= 0

\* The next run of an interval timer that was due at timer, step later when
\* that is still to come; a late timer tries to get in sync again, and one that
\* is more than step late starts again.
setNextTimeInterval(timer, step, now) ==
    LET next   == Plus(timer, step)
        passed == timePassedSince(next, now)
    IN  IF passed < 0 THEN next
        ELSE IF passed > step THEN Plus(now, step)
        ELSE Plus(now, step - passed)

=============================================================================
