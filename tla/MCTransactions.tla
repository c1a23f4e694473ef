--------------------------- MODULE MCTransactions ---------------------------
(* Small instances of BookingTransactions for TLC, and of BookingClock, with   *)
(* which it shares no state: a behaviour is one of the calls or of the clock.  *)
EXTENDS BookingTransactions, Overviews, TLC

CONSTANTS b1, b2, b3

VARIABLE scene

\* b1 and b2 want the kit for overlapping windows; b3's only meets theirs.
MCBookings == {b1, b2, b3}
MCPair     == {b1, b2}
MCColliding == {<<b1, b2>>, <<b2, b1>>}

\* One tick is a minute.  Instants on and on both sides of the hour of lead
\* time and of due soon, and of the quarter of grace around one of them.
MCInstants == {0, 58, 60, 75, 76, 118}

\* A day of an hour, so that the instants fall on several days; a zone without
\* clock changes, and two whose clocks go forward or back early on the second.
MCZones == {[change |-> 0, before |-> 10, after |-> 10],
            [change |-> 64, before |-> 0, after |-> 3],
            [change |-> 64, before |-> 3, after |-> 0]}

Interchangeable == Permutations({b1, b2}) \cup Permutations(Sessions)

\* While the calls play, the booking of the clock rests.
ClockRests ==
    /\ now = 0 /\ bookingStatus = "ABSENT"
    /\ schedule = NoSchedule /\ actualReturn = NotReturned

CallsInit == scene = "calls" /\ Init /\ ClockRests
CallsNext == scene = "calls" /\ Next /\ UNCHANGED <<scene, clockVars>>
CallsSpec == CallsInit /\ [][CallsNext]_<<scene, vars, clockVars>>

CallsAndClockInit == CallsInit \/ (scene = "clock" /\ Init /\ ClockInit)
CallsAndClockNext ==
    CallsNext \/ (scene = "clock" /\ ClockNext /\ UNCHANGED <<scene, vars>>)

\* The calls are fair; the clock need not move on.
CallsAndClockSpec ==
    CallsAndClockInit /\ [][CallsAndClockNext]_<<scene, vars, clockVars>> /\ Fairness
=============================================================================
