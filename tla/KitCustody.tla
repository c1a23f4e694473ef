----------------------------- MODULE KitCustody -----------------------------
(***************************************************************************)
(* What the system promises about where kits are, and no more.  A kit is   *)
(* in the store or out with exactly one booking; a booking takes one kit   *)
(* out at most once, and only that booking's return brings the kit back.   *)
(* The kit's own label says "checked out" exactly while it is out.         *)
(*                                                                         *)
(* BookingLifecycle implements this specification (see BookingSafety).     *)
(***************************************************************************)
CONSTANTS Bookings, Kits

VARIABLES
    out,        \* the pairs <<k, b>> such that kit k is out with booking b
    labelled,   \* the kits whose record says they are checked out
    returned    \* the bookings whose return has been completed

custodyVars == <<out, labelled, returned>>

Init ==
    /\ out = {}
    /\ labelled = {}
    /\ returned = {}

TakeOut(k, b) ==
    /\ \A c \in Bookings : <<k, c>> \notin out
    /\ \A j \in Kits : <<j, b>> \notin out
    /\ b \notin returned
    /\ out' = out \cup {<<k, b>>}
    /\ labelled' = labelled \cup {k}
    /\ UNCHANGED returned

BringBack(k, b) ==
    /\ <<k, b>> \in out
    /\ out' = out \ {<<k, b>>}
    /\ labelled' = labelled \ {k}
    /\ returned' = returned \cup {b}

Next == \E k \in Kits, b \in Bookings : TakeOut(k, b) \/ BringBack(k, b)

Spec == Init /\ [][Next]_custodyVars
=============================================================================
