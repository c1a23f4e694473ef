---------------------------- MODULE BookingClock ----------------------------
(***************************************************************************)
(* One booking and the server's clock: which schedules are accepted, what  *)
(* the handover and the return write over them, and what overdue, due soon *)
(* and punctuality are derived from them.                                  *)
(*                                                                         *)
(* Everything about the booking that is not a time (the kit, the editor,   *)
(* the documents) is left to BookingLifecycle: here the operations are     *)
(* guarded by status and time alone, so this module allows every order of  *)
(* them that BookingLifecycle does.  The clock does not run backwards.     *)
(***************************************************************************)
EXTENDS BookingRules

CONSTANTS Instants,        \* the instants that matter on this instance
          DueSoonHours     \* DUE_SOON_HOURS of bookings.service.ts

ASSUME ClockAssumption ==
    /\ Instants \subseteq Nat
    /\ DueSoonHours \in Nat

VARIABLES
    now,            \* the server clock
    bookingStatus,  \* Booking.status, or ABSENT before the row exists
    schedule,       \* bookingStart, bookingEnd, collectionDate, expectedReturnDate
    actualReturn    \* actualReturnDate, or NotReturned

clockVars == <<now, bookingStatus, schedule, actualReturn>>

NotReturned == -1
NoSchedule  == [start |-> 0, end |-> 0, collection |-> NoCollection, expected |-> 0]

Schedules ==
    [start : Instants, end : Instants,
     collection : Instants \cup {NoCollection}, expected : Instants]

ClockTypeOK ==
    /\ now \in Instants
    /\ bookingStatus \in BookingStatuses \cup {"ABSENT"}
    /\ schedule \in Schedules \cup {NoSchedule}
    /\ actualReturn \in Instants \cup {NotReturned}

ClockInit ==
    /\ now \in Instants
    /\ bookingStatus = "ABSENT"
    /\ schedule = NoSchedule
    /\ actualReturn = NotReturned

-----------------------------------------------------------------------------
\* The row as the database accepts it.
RowAccepted(s) == PeriodIsOrdered(s) /\ ReturnAfterCollection(s)

\* The clock moves on.
Tick ==
    /\ now' \in {t \in Instants : t > now}
    /\ UNCHANGED <<bookingStatus, schedule, actualReturn>>

\* assertSchedule does not look at the clock: a window may lie in the past.
CreateBooking(s) ==
    /\ bookingStatus = "ABSENT"
    /\ ScheduleErrors(s) = {}
    /\ RowAccepted(s)
    /\ schedule' = s
    /\ bookingStatus' \in {"DRAFT", "RESERVED"}
    /\ UNCHANGED <<now, actualReturn>>

UpdateSchedule(s) ==
    /\ EditScopeFor(bookingStatus) = "full" /\ bookingStatus # "ABSENT"
    /\ s # schedule
    /\ ScheduleErrors(s) = {}
    /\ RowAccepted(s)
    /\ schedule' = s
    /\ UNCHANGED <<now, bookingStatus, actualReturn>>

\* reserveBooking, returnToDraft, markReadyForHandover, revertReadyForHandover, cancelBooking.
ChangeStatus(to) ==
    /\ CanTransition(bookingStatus, to)
    /\ bookingStatus' = to
    /\ UNCHANGED <<now, schedule, actualReturn>>

\* (Fault) the planned collection is kept, the real one is not written down.
CollectAsPlanned == schedule' = schedule

\* The booking is collected now; expectedReturnDate is left as it was, and the
\* database refuses a collection that falls after it.
Collect ==
    /\ schedule' = [schedule EXCEPT !.collection = now]
    /\ RowAccepted(schedule')

CompleteHandover ==
    /\ bookingStatus = "READY_FOR_HANDOVER"
    /\ Collect
    /\ bookingStatus' = "CHECKED_OUT"
    /\ UNCHANGED <<now, actualReturn>>

StartReturn ==
    /\ CanStartReturn(bookingStatus)
    /\ bookingStatus' = "RETURN_INSPECTION"
    /\ UNCHANGED <<now, schedule, actualReturn>>

CompleteReturn ==
    /\ bookingStatus = "RETURN_INSPECTION"
    /\ actualReturn' = now
    /\ bookingStatus' = "COMPLETED"
    /\ UNCHANGED <<now, schedule>>

ClockNext ==
    \/ Tick
    \/ \E s \in Schedules : CreateBooking(s) \/ UpdateSchedule(s)
    \/ \E to \in BookingStatuses : ChangeStatus(to)
    \/ CompleteHandover
    \/ StartReturn
    \/ CompleteReturn

ClockSpec == ClockInit /\ [][ClockNext]_clockVars

-----------------------------------------------------------------------------
(* What screens derive *)

Overdue == IsBookingOverdue(bookingStatus, schedule.expected, now)
DueSoon == IsDueSoon(bookingStatus, schedule.expected, now, DueSoonHours)

HasBeenCollected == bookingStatus \in {"CHECKED_OUT", "OVERDUE", "RETURN_INSPECTION", "COMPLETED"}

-----------------------------------------------------------------------------
(* Properties *)

(***************************************************************************)
(* Wherever a schedule can be entered, what the form's rules               *)
(* (scheduleErrors) let through satisfies the two CHECK constraints of the *)
(* bookings table: creating or editing a booking never fails on them.      *)
(***************************************************************************)
ValidatedSchedulesFit ==
    bookingStatus = "ABSENT" \/ EditScopeFor(bookingStatus) = "full"
        => \A s \in Schedules : ScheduleErrors(s) = {} => RowAccepted(s)

(***************************************************************************)
(* The times of a booking that went out are in order: it was collected no  *)
(* later than it was due back and no later than the clock, and came back   *)
(* no earlier than it was collected (completeHandover and completeReturn   *)
(* write the clock over whatever was planned).                             *)
(***************************************************************************)
TimesInOrder ==
    /\ HasBeenCollected =>
         /\ schedule.collection # NoCollection
         /\ schedule.collection =< schedule.expected
         /\ schedule.collection =< now
    /\ bookingStatus = "COMPLETED" =>
         schedule.collection =< actualReturn /\ actualReturn =< now

(***************************************************************************)
(* A late kit cannot be made to look punctual: once a booking has been     *)
(* overdue, no edit of it and no order of operations lets its completed    *)
(* return be on record as early, or as before the time it was due.         *)
(***************************************************************************)
OverdueIsNotForgotten ==
    [](Overdue => [](bookingStatus = "COMPLETED" =>
                        /\ actualReturn > schedule.expected
                        /\ ReturnPunctuality(schedule.expected, actualReturn) # "early"))

(***************************************************************************)
(* The two flags the lists show (bookingTimeState) are never both set, and *)
(* a booking that is out with the clock inside the due-soon horizon of its *)
(* expected return or past it carries exactly one.                         *)
(***************************************************************************)
OneTimeFlag ==
    /\ ~(Overdue /\ DueSoon)
    /\ bookingStatus = "CHECKED_OUT" /\ now + DueSoonHours * Hour > schedule.expected
         => Overdue \/ DueSoon
=============================================================================
