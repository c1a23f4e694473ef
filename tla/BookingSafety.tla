--------------------------- MODULE BookingSafety ----------------------------
(***************************************************************************)
(* What must and must not happen to bookings and kits under                *)
(* BookingLifecycle, and the refinement of KitCustody.                     *)
(***************************************************************************)
EXTENDS BookingLifecycle

(***************************************************************************)
(* A kit is never promised twice for an instant: two bookings that hold    *)
(* the same kit have disjoint windows, whatever sequence of reservations,  *)
(* edits, reverts and cancellations led there (assertReservable and        *)
(* bookings_no_overlapping_period_per_kit).                                *)
(***************************************************************************)
NoOverlappingHolds ==
    \A b, c \in Bookings :
        b # c /\ Live(b) /\ Live(c) /\ kitOf[b] = kitOf[c]
            => ~RangesOverlap(window[b].start, window[b].end, window[c].start, window[c].end)

(***************************************************************************)
(* A kit is out with one booking at most.  Windows do not give this: they  *)
(* are not compared with the clock, and bookings of adjacent windows may   *)
(* be ready at the same time.  It rests on completeHandover asking for a   *)
(* kit that is set aside.                                                  *)
(***************************************************************************)
OneBookingOutPerKit ==
    \A b, c \in Bookings : b # c /\ IsOut(b) /\ IsOut(c) => kitOf[b] # kitOf[c]

(***************************************************************************)
(* The kit's record tells where it is: CHECKED_OUT exactly while some      *)
(* booking has it, through the return inspection too.                      *)
(***************************************************************************)
CheckedOutExactlyWhileOut ==
    \A k \in Kits :
        kitStatus[k] = "CHECKED_OUT" <=> \E b \in Bookings : IsOut(b) /\ kitOf[b] = k

(***************************************************************************)
(* The documents and the booking's status tell the same story: equipment   *)
(* is out, or was, exactly when the handover document was completed, and   *)
(* the return document is open exactly during the return inspection and    *)
(* complete exactly when the booking is.                                   *)
(***************************************************************************)
DocumentsMatchStatus ==
    \A b \in Bookings :
        /\ handoverDoc[b] = "COMPLETED" <=> IsOut(b) \/ status[b] = "COMPLETED"
        /\ returnDoc[b] = "IN_PROGRESS" <=> status[b] = "RETURN_INSPECTION"
        /\ returnDoc[b] = "COMPLETED" <=> status[b] = "COMPLETED"

(***************************************************************************)
(* A kit that is out can come back: none of bookingReturnBlockers ever     *)
(* stands in the way of starting the return or, once started, of           *)
(* completing it.  (returnVerdict is the exception: with nothing handed    *)
(* over there is nothing to account for, and CompleteReturn is refused.)   *)
(***************************************************************************)
ReturnNeverBlocked ==
    \A b \in Bookings :
        IsOut(b) => ReturnBlockers(b, status[b] = "RETURN_INSPECTION") = {}

(***************************************************************************)
(* From the moment a booking is ready until its kit is back, the kit stays *)
(* in service and the directory profile it is for stays active, although   *)
(* administrators may retire, remove and deactivate at any time.           *)
(***************************************************************************)
CommitmentsKept ==
    \A b \in Bookings :
        status[b] = "READY_FOR_HANDOVER" \/ IsOut(b)
            => KitInService(kitOf[b]) /\ EditorBookable(editorOf[b])

(***************************************************************************)
(* The equipment of a kit that is out stays attached to it: the kit is not *)
(* emptied while somebody has it.                                          *)
(***************************************************************************)
OutKitKeepsEquipment ==
    \A b \in Bookings : IsOut(b) => contents[kitOf[b]] # "empty"

(***************************************************************************)
(* A kit stops being checked out only by the completed return of the very  *)
(* booking that has it; no cancellation, revert, edit of the kit or return *)
(* of another booking marks it available.                                  *)
(***************************************************************************)
LeavesCheckedOutByReturn ==
    [][\A k \in Kits :
         kitStatus[k] = "CHECKED_OUT" /\ kitStatus'[k] # "CHECKED_OUT"
            => \E b \in Bookings :
                 /\ kitOf[b] = k
                 /\ status[b] = "RETURN_INSPECTION" /\ status'[b] = "COMPLETED"]_vars

-----------------------------------------------------------------------------
(* The lifecycle implements the custody specification. *)

Custody == INSTANCE KitCustody WITH
    out      <- {<<kitOf[b], b>> : b \in {c \in Bookings : IsOut(c)}},
    labelled <- {k \in Kits : kitStatus[k] = "CHECKED_OUT"},
    returned <- {b \in Bookings : status[b] = "COMPLETED"}

\* Every behaviour of the lifecycle is, seen through what is out, what is
\* labelled as out and what was returned, a behaviour of KitCustody.
ImplementsCustody == Custody!Spec

-----------------------------------------------------------------------------
(* What the documentation says and the code does not do: each is the       *)
(* property of one run that refutes it.                                    *)

(***************************************************************************)
(* "DRAFT -> RESERVED: the editor, the kit's readiness and the window are  *)
(* all checked." (bookings.service.ts:490)                                 *)
(***************************************************************************)
ReservingIsChecked ==
    [][\A b \in Bookings :
         status[b] = "DRAFT" /\ status'[b] = "RESERVED"
            => /\ EditorBookable(editorOf[b])
               /\ KitInService(kitOf[b])
               /\ Reservable(b, kitOf[b], window[b])]_vars
=============================================================================
