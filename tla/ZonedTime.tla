----------------------------- MODULE ZonedTime ------------------------------
(* The business-time helpers of src/lib/datetime.ts: pure operators on        *)
(* instants and on the wall clock of a time zone.                             *)
(*                                                                            *)
(* A zone is [change, before, after]: its offset from UTC is `before` until   *)
(* the instant `change` and `after` from then on, one daylight-saving change  *)
(* (none, when the two are equal).  Instants, offsets and wall-clock readings *)
(* are integers of the same tick, a minute or a multiple of it.               *)
EXTENDS Integers

CONSTANT Day  \* ticks in a day

ASSUME DayAssumption == Day \in Nat \ {0}

\* What Intl answers for an instant, and the reading it makes of the clock.
OffsetAt(z, t) == IF t < z.change THEN z.before ELSE z.after
WallClock(z, t) == t + OffsetAt(z, t)

\* A reading typed into a form, as an instant: the offset is looked up at a
\* first guess, and again at the instant that guess gives.
ZonedLocalToDate(z, wall) ==
    LET first == wall - OffsetAt(z, wall)
    IN  wall - OffsetAt(z, first)

\* An instant as a form shows it.
ToZonedLocalInput(z, t) == WallClock(z, t)

\* The local midnight before an instant, in the same two passes.
StartOfBusinessDay(z, t) ==
    LET midnight == (WallClock(z, t) \div Day) * Day
        guess    == midnight - OffsetAt(z, t)
    IN  midnight - OffsetAt(z, guess)

\* (Fault) the day after is looked for a day later.
DayAfterByADay(z, t) ==
    LET start == StartOfBusinessDay(z, t)
    IN  [start |-> start, end |-> start + Day]

\* [start, end) of the business day: the next one starts within 36 hours.
BusinessDayRange(z, t) ==
    LET start == StartOfBusinessDay(z, t)
    IN  [start |-> start,
         end   |-> StartOfBusinessDay(z, start + Day + Day \div 2)]

IsSameBusinessDay(z, a, b) == WallClock(z, a) \div Day = WallClock(z, b) \div Day

\* Math.round of the days between two midnights.
BusinessDaysBetween(z, from, to) ==
    (2 * (StartOfBusinessDay(z, to) - StartOfBusinessDay(z, from)) + Day)
        \div (2 * Day)

\* How a return date reads on the dashboard.
DescribeDue(z, expected, now) ==
    LET days == BusinessDaysBetween(z, now, expected) IN
    IF expected < now THEN "Overdue"
    ELSE CASE days = 0 -> "Due today"
           [] days = 1 -> "Due tomorrow"
           [] OTHER    -> "Due"
=============================================================================
