---------------------------- MODULE BookingRules ----------------------------
(***************************************************************************)
(* The booking lifecycle and time rules of src/lib/booking-rules.ts: pure  *)
(* operators, shared by every module that has bookings in it.              *)
(*                                                                         *)
(* An instant is an integer number of ticks.  Minute is the number of      *)
(* ticks in a minute (60000 in the program, where a tick is a millisecond  *)
(* of Date.getTime()), so that the rounding in minutesLate and the strict  *)
(* comparisons at an instant keep their meaning on small instances.        *)
(***************************************************************************)
EXTENDS Integers

CONSTANTS Minute,              \* ticks in a minute
          ReturnGraceMinutes,  \* RETURN_GRACE_MINUTES, 15 in the program
          CollectionLeadHours  \* COLLECTION_LEAD_HOURS, 24 in the program

ASSUME TimeAssumption ==
    /\ Minute \in Nat \ {0}
    /\ ReturnGraceMinutes \in Nat
    /\ CollectionLeadHours \in Nat

Hour == 60 * Minute

-----------------------------------------------------------------------------
(* Statuses and manual transitions *)

BookingStatuses ==
    {"DRAFT", "RESERVED", "READY_FOR_HANDOVER", "CHECKED_OUT", "OVERDUE",
     "RETURN_INSPECTION", "COMPLETED", "CANCELLED"}

\* The statuses that hold the kit for the window, in the exclusion constraint too.
HoldingStatuses ==
    {"RESERVED", "READY_FOR_HANDOVER", "CHECKED_OUT", "OVERDUE", "RETURN_INSPECTION"}

OutStatuses == {"CHECKED_OUT", "OVERDUE"}

ReturnStartStatuses == {"CHECKED_OUT", "OVERDUE"}

ManualTransitions ==
    {<<"DRAFT", "RESERVED">>, <<"DRAFT", "CANCELLED">>,
     <<"RESERVED", "DRAFT">>, <<"RESERVED", "READY_FOR_HANDOVER">>,
     <<"RESERVED", "CANCELLED">>,
     <<"READY_FOR_HANDOVER", "RESERVED">>, <<"READY_FOR_HANDOVER", "CANCELLED">>}

CanTransition(from, to) == <<from, to>> \in ManualTransitions

\* (Fault) a booking that is out can be cancelled.
IsCancellableWhileOut(s) == CanTransition(s, "CANCELLED") \/ s = "CHECKED_OUT"

IsCancellable(s) == CanTransition(s, "CANCELLED")

CanStartReturn(s) == s \in ReturnStartStatuses

\* (Fault) a booking that is out can still be edited.
EditScopeForWhileOut(s) ==
    IF s \in {"DRAFT", "RESERVED", "CHECKED_OUT"} THEN "full" ELSE "none"

EditScopeFor(s) ==
    CASE s \in {"DRAFT", "RESERVED"}   -> "full"
      [] s = "READY_FOR_HANDOVER"      -> "restricted"
      [] OTHER                         -> "none"

-----------------------------------------------------------------------------
(* Time *)

\* The half-open windows [aStart, aEnd) and [bStart, bEnd) collide.
RangesOverlap(aStart, aEnd, bStart, bEnd) == aStart < bEnd /\ bStart < aEnd

IsBookingOverdue(s, expected, now) ==
    \/ s = "OVERDUE"
    \/ s = "CHECKED_OUT" /\ expected < now

ReturnPunctuality(expected, actual) ==
    LET difference == actual - expected
        grace      == ReturnGraceMinutes * Minute
    IN  CASE difference > grace  -> "late"
          [] difference < -grace -> "early"
          [] OTHER               -> "on-time"

MinutesLate(expected, actual) ==
    IF actual > expected THEN (actual - expected) \div Minute ELSE 0

IsDueSoon(s, expected, now, hours) ==
    /\ s \in OutStatuses
    /\ now =< expected
    /\ expected < now + hours * Hour

-----------------------------------------------------------------------------
(* Schedules.  A schedule is a record of the booking's instants; a planned  *)
(* collection is optional and NoCollection stands for null.                 *)

NoCollection == -1

\* The fields scheduleErrors complains about; empty when the schedule is consistent.
ScheduleErrors(s) ==
    LET planned  == s.collection # NoCollection
        earliest == IF planned THEN s.collection ELSE s.start
    IN  {f \in {"bookingEnd", "collectionDate", "expectedReturnDate"} :
           \/ f = "bookingEnd" /\ s.end =< s.start
           \/ /\ f = "collectionDate" /\ planned
              /\ \/ s.collection < s.start - CollectionLeadHours * Hour
                 \/ s.collection > s.end
           \/ /\ f = "expectedReturnDate"
              /\ s.expected < earliest \/ s.expected > s.end}

\* The two CHECK constraints on the bookings table.
PeriodIsOrdered(s) == s.end > s.start
ReturnAfterCollection(s) == s.collection = NoCollection \/ s.expected >= s.collection
=============================================================================
