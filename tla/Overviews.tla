------------------------------ MODULE Overviews ------------------------------
(***************************************************************************)
(* The booking of BookingClock as the dashboard, the tabs of the booking   *)
(* list, the badges and the reports show it: the same questions (is it     *)
(* out, is it late, is it due today, in which days did it begin) asked in  *)
(* SQL over instants, in local days of the business time zone, and of a    *)
(* page's clock.                                                           *)
(*                                                                         *)
(* Each of them lists every booking that satisfies a condition, so one     *)
(* booking is enough to compare them.  Search and the kit and editor       *)
(* filters narrow all of them alike and are left out; which people see     *)
(* which bookings, and the paging, are in Lists.                           *)
(***************************************************************************)
EXTENDS BookingClock, ZonedTime

CONSTANTS Zones,    \* time zones the business may be in (APP_TIMEZONE)
          NoDay     \* a date filter left empty

\* A zone's clocks are changed by less than half a day, and not over a midnight:
\* none of the local days begins twice, or without one.
ASSUME OverviewsAssumption ==
    /\ NoDay \notin Int
    /\ \A z \in Zones :
         /\ z.change \in Int /\ z.before \in Int /\ z.after \in Int
         /\ 2 * (z.before - z.after) < Day /\ 2 * (z.after - z.before) < Day
         /\ (z.change + z.before - 1) \div Day = (z.change + z.after - 1) \div Day

Within(t, range) == range.start =< t /\ t < range.end

IsListable == bookingStatus # "ABSENT"

-----------------------------------------------------------------------------
(* The dashboard *)

OverdueWhere ==
    \/ bookingStatus = "OVERDUE"
    \/ bookingStatus = "CHECKED_OUT" /\ schedule.expected < now

InToday(z) ==
    LET today == BusinessDayRange(z, now)
    IN  /\ bookingStatus # "CANCELLED"
        /\ Within(schedule.start, today) \/ Within(schedule.expected, today)

\* findOverdueBookings, findTodaysBookings, findUpcomingReturns and, for an
\* editor, findCurrentBooking; each is cut off after a few rows.
OnPanel(panel, z) ==
    /\ IsListable
    /\ CASE panel = "overdue"  -> OverdueWhere
         [] panel = "today"    -> InToday(z)
         [] panel = "upcoming" -> bookingStatus \in OutStatuses /\ schedule.expected >= now
         [] panel = "current"  -> bookingStatus \in HoldingStatuses

\* filterWhere, for the tabs that ask about time.
OnTab(tab, z) ==
    /\ IsListable
    /\ CASE tab = "today"       -> InToday(z)
         [] tab = "checked-out" -> bookingStatus \in OutStatuses
         [] tab = "due-soon"    -> /\ bookingStatus \in OutStatuses
                                   /\ now =< schedule.expected
                                   /\ schedule.expected < now + DueSoonHours * Hour
         [] tab = "overdue"     -> OverdueWhere

\* BookingTimeBadge.
TimeBadge(z) ==
    IF Overdue THEN "Overdue"
    ELSE IF DueSoon \/ bookingStatus = "CHECKED_OUT" THEN DescribeDue(z, schedule.expected, now)
    ELSE "none"

-----------------------------------------------------------------------------
(* The reports *)

\* toReportParams: the filters name local days, `to' the whole of its day.
Window(z, from, to) ==
    [from |-> IF from = NoDay THEN NoDay ELSE ZonedLocalToDate(z, from * Day),
     to   |-> IF to = NoDay THEN NoDay
              ELSE BusinessDayRange(z, ZonedLocalToDate(z, to * Day)).end]

InWindow(t, w) == (w.from = NoDay \/ w.from =< t) /\ (w.to = NoDay \/ t < w.to)

\* What was asked without dates.
AnyTime == [from |-> NoDay, to |-> NoDay]

\* The where-clauses of checkedOut, dueReturns, overdue, bookingHistory and of
\* the bookings counted by kitUtilisation and editorHistory.  An upcoming return
\* is looked for from the given day or, without one, from now.
InReport(report, w) ==
    /\ IsListable
    /\ CASE report = "checked-out"     -> bookingStatus \in OutStatuses
         [] report = "due-returns"     -> /\ bookingStatus \in OutStatuses
                                          /\ InWindow(schedule.expected,
                                               IF w.from = NoDay THEN [w EXCEPT !.from = now] ELSE w)
         [] report = "overdue"         -> OverdueWhere
         [] report = "booking-history" -> InWindow(schedule.start, w)
         [] report \in {"kit-utilisation", "editor-history"} ->
                /\ bookingStatus \notin {"DRAFT", "CANCELLED"}
                /\ InWindow(schedule.start, w)

\* The columns derived from times.
DaysOut      == (now - schedule.collection) \div Day
DaysLate     == IF now > schedule.expected THEN (now - schedule.expected) \div Day ELSE 0
TicksUntilDue == schedule.expected - now

Punctuality ==
    IF actualReturn = NotReturned THEN "none"
    ELSE ReturnPunctuality(schedule.expected, actualReturn)

\* kitUtilisation: from collection to the return, or to now.
TimeOut ==
    LET end == IF actualReturn = NotReturned THEN now ELSE actualReturn
    IN  IF schedule.collection = NoCollection \/ end < schedule.collection THEN 0
        ELSE end - schedule.collection

\* lateReturns of kitUtilisation and editorHistory counts the booking.
CountedLate(w) == InReport("kit-utilisation", w) /\ Punctuality = "late"

-----------------------------------------------------------------------------
(* Properties *)

\* A kit that is late is late everywhere, and a kit that is out is either late
\* or among the upcoming returns, never both and never neither.
LatenessAgrees ==
    \A z \in Zones :
        /\ OnPanel("overdue", z) <=> TimeBadge(z) = "Overdue"
        /\ OnTab("overdue", z) <=> TimeBadge(z) = "Overdue"
        /\ InReport("overdue", AnyTime) <=> TimeBadge(z) = "Overdue"
        /\ OnPanel("upcoming", z) <=> InReport("due-returns", AnyTime)
        /\ OnTab("due-soon", z) => OnPanel("upcoming", z)
        /\ InReport("checked-out", AnyTime)
             <=> (InReport("overdue", AnyTime) # InReport("due-returns", AnyTime))
             /\ OnTab("checked-out", z)

\* "Due today" on a badge counts local midnights, "today" on the dashboard and
\* the tab compares instants with a range: they mean the same day.
TodayAgrees ==
    \A z \in Zones :
        /\ OnPanel("today", z) <=> OnTab("today", z)
        /\ TimeBadge(z) = "Due today" => OnPanel("today", z)
        /\ TimeBadge(z) \in {"Due tomorrow", "Due"} =>
             (OnPanel("today", z) <=> IsSameBusinessDay(z, schedule.start, now))

\* A report of the days from .. to lists exactly what is shown with a date in
\* those days.
WindowsAreLocalDays ==
    \A z \in Zones : LET day == WallClock(z, schedule.start) \div Day IN
        \A from, to \in (day - 1) .. (day + 1) :
            /\ InReport("booking-history", Window(z, from, to)) <=> from =< day /\ day =< to
            /\ InReport("booking-history", Window(z, from, NoDay)) <=> from =< day
            /\ InReport("booking-history", Window(z, NoDay, to)) <=> day =< to

\* No report has a negative number in it; a finished booking's time out no
\* longer changes; and a return counted as late was due before it came.
NumbersMakeSense ==
    /\ InReport("checked-out", AnyTime) => DaysOut >= 0
    /\ InReport("due-returns", AnyTime) => TicksUntilDue >= 0 /\ DaysLate = 0
    /\ bookingStatus = "COMPLETED" => TimeOut = actualReturn - schedule.collection
    /\ CountedLate(AnyTime) => bookingStatus = "COMPLETED" /\ actualReturn > schedule.expected

(***************************************************************************)
(* The dashboard, the tabs, the badges and the reports give one answer     *)
(* about a booking, whenever they are opened and wherever the business is, *)
(* also on the days its clocks change.                                     *)
(***************************************************************************)
OverviewsAgree ==
    IsListable => LatenessAgrees /\ TodayAgrees /\ WindowsAreLocalDays /\ NumbersMakeSense
=============================================================================
