----------------------------- MODULE MCBookings -----------------------------
(* Small instances of BookingLifecycle for TLC. *)
EXTENDS Pages, TLC

Window(from, to) == [start |-> from, end |-> to]

\* Two back-to-back windows and one across both of them.
MCWindows == {Window(0, 1), Window(1, 2), Window(0, 2)}

\* Two back-to-back windows: every pair of bookings can be held together.
MCAdjacent == {Window(0, 1), Window(1, 2)}

\* A single window, where the windows are not the question.
MCOneWindow == {Window(0, 1)}

Interchangeable == Permutations(Bookings)
InterchangeableKits == Permutations(Bookings) \cup Permutations(Kits)
=============================================================================
