------------------------------- MODULE Pages --------------------------------
(***************************************************************************)
(* What the booking page and the kit page say and offer, over the state of *)
(* BookingLifecycle: loadBookingWorkspace and the booking overview,        *)
(* evaluateKitAvailability, loadKitWorkspace and kitOperations, the        *)
(* equipment panel and the kit picker of a new booking.                    *)
(*                                                                         *)
(* A page is computed from one reading of the database and the permissions *)
(* of whoever opens it, at an instant `now'; it changes nothing.  Whether  *)
(* the page is still true when its button is pressed is the question of    *)
(* BookingTransactions; here it is whether it is true when it is shown.    *)
(***************************************************************************)
EXTENDS BookingSafety

\* The permissions of ROLE_PERMISSIONS these two pages ask about.  A booking
\* opens for an EDITOR too, when it is their own.
Granted ==
    LET storeWork == {"booking.create", "booking.read", "booking.update", "booking.cancel",
                      "handover.perform", "return.perform", "kit.read"}
    IN  [ADMIN    |-> storeWork \cup {"kit.manage"},
         ENGINEER |-> storeWork,
         EDITOR   |-> {"booking.readOwn"},
         VIEWER   |-> {"booking.read", "kit.read"}]

Roles == DOMAIN Granted
Can(role, permission) == permission \in Granted[role]

\* The instants a page may be opened at.
Instants == {w.start : w \in Windows} \cup {w.end : w \in Windows}

-----------------------------------------------------------------------------
(* The booking page *)

Offer(step, when) == IF when THEN {step} ELSE {}

\* The flags of loadBookingWorkspace, each a button or a link of the overview
\* or an answerable checklist.
BookingOffers(b, role) ==
    LET manage == Can(role, "booking.update")
        at(s)  == status[b] = s
    IN  UNION {
          Offer("reserve", manage /\ CanTransition(status[b], "RESERVED") /\ at("DRAFT")),
          Offer("draft", manage /\ at("RESERVED")),
          Offer("ready", manage /\ at("RESERVED")),
          Offer("revert", manage /\ at("READY_FOR_HANDOVER")),
          Offer("cancel", Can(role, "booking.cancel") /\ IsCancellable(status[b])),
          Offer("edit", manage /\ EditScopeFor(status[b]) # "none"),
          Offer("prepare", /\ manage /\ handoverDoc[b] = "NONE"
                           /\ status[b] \in {"DRAFT", "RESERVED", "READY_FOR_HANDOVER"}),
          Offer("handover", Can(role, "handover.perform") /\ at("READY_FOR_HANDOVER")),
          Offer("return", /\ Can(role, "return.perform")
                          /\ CanStartReturn(status[b]) \/ at("RETURN_INSPECTION")
                          /\ handoverDoc[b] = "COMPLETED")}

\* Nothing the page shows stands in the way of setting the kit aside.  Of a
\* checklist without items it says that the handover can proceed without checks.
ShownFitForHandover(b) == Prepared(checklist[b]) /\ EditorBookable(editorOf[b]) /\ KitReady(kitOf[b])

ReturnCanGoOn(b) ==
    \/ MayStartReturn(b)
    \/ returnDoc[b] = "IN_PROGRESS" /\ ReturnBlockers(b, TRUE) = {}

\* What the service would make of an offer taken up at once.
Accepted(b, step) ==
    CASE step = "draft"    -> MayReturnToDraft(b)
      [] step = "revert"   -> MayRevert(b)
      [] step = "cancel"   -> MayCancel(b)
      [] step = "prepare"  -> MayPrepare(b)
      [] step = "return"   -> ReturnCanGoOn(b)
      [] step = "ready"    -> ShownFitForHandover(b) /\ checklist[b] # "none"
                                => \A template \in Checklists : MayMarkReady(b, template)
      [] OTHER             -> TRUE   \* announced as checked when it is tried

-----------------------------------------------------------------------------
(* The kit page *)

\* Kit.liveBooking: liveBookingArgs takes the live booking that starts first.
CurrentBooking(k) ==
    {b \in Bookings :
        /\ Live(b) /\ kitOf[b] = k
        /\ \A c \in Bookings : Live(c) /\ kitOf[c] = k => window[b].start =< window[c].start}

\* A reservation whose window has not begun does not hold the kit today.
HoldsKitNow(b, now) ==
    IsOut(b) \/ status[b] = "READY_FOR_HANDOVER" \/ window[b].start =< now

Holders(k, now) == {b \in CurrentBooking(k) : HoldsKitNow(b, now)}

\* KitAvailability.available: no blocking reason.
KitAvailable(k, now) ==
    /\ k \notin removedKits
    /\ Holders(k, now) = {}
    /\ kitStatus[k] = "AVAILABLE"
    /\ contents[k] # "unfit"

KitState(k, now) ==
    IF KitAvailable(k, now) THEN "ready"
    ELSE IF kitStatus[k] = "CHECKED_OUT" \/ \E b \in Holders(k, now) : IsOut(b) THEN "out"
    ELSE IF kitStatus[k] = "RESERVED" \/ Holders(k, now) # {} THEN "reserved"
    ELSE "unavailable"

\* (Fault) a kit that shows as ready can be booked at once, reservations or not.
KitOperationsWhenReady(k, role, now) ==
    IF KitAvailable(k, now) /\ Can(role, "booking.create")
      THEN {<<"book", b>> : b \in {c \in Bookings : status[c] = "ABSENT"}}
      ELSE {}

\* kitOperations: what to do with the current booking or, without one, a new one.
KitOperations(k, role, now) ==
    LET offers(op, permission, statuses) ==
            {<<op, b>> : b \in {c \in CurrentBooking(k) :
                                  Can(role, permission) /\ status[c] \in statuses}}
    IN  IF k \in removedKits THEN {}
        ELSE IF CurrentBooking(k) # {}
          THEN offers("handover", "handover.perform", {"READY_FOR_HANDOVER"})
               \cup offers("return", "return.perform", OutStatuses \cup {"RETURN_INSPECTION"})
          ELSE IF KitAvailable(k, now) /\ Can(role, "booking.create")
            THEN {<<"book", b>> : b \in {c \in Bookings : status[c] = "ABSENT"}}
            ELSE {}

\* The buttons the page does not disable: kitRemovalBlocker, kitAcceptsMembersBlocker
\* and memberRemovalBlocker are computed with the page.
RemovalOffered(k, role) ==
    /\ Can(role, "kit.manage") /\ k \notin removedKits
    /\ ~HasLiveBooking(k) /\ kitStatus[k] \notin WorkflowStatuses /\ contents[k] = "empty"
AddingOffered(k, role) ==
    Can(role, "kit.manage") /\ KitInService(k) /\ ~ContentsLocked(k)

\* "Select" in the kit picker and "Reserve kit" on the form of a new booking.
SelectOffered(k, role) ==
    /\ Can(role, "booking.create")
    /\ k \notin removedKits /\ kitStatus[k] # "RETIRED" /\ KitReady(k)

KitOfferAccepted(op, b, k) ==
    CASE op = "book"     -> \A w \in Windows, e \in activeEditors \cup {NoEditor} :
                               MayCreate(b, k, w, e, TRUE)
      [] op = "return"   -> ReturnCanGoOn(b)
      [] op = "handover" -> "handover" \in BookingOffers(b, "ENGINEER")

-----------------------------------------------------------------------------
BookingOffersAreAccepted ==
    \A b \in Bookings :
        status[b] # "ABSENT" =>
            \A role \in Roles : \A step \in BookingOffers(b, role) : Accepted(b, step)

KitOffersAreAccepted ==
    \A k \in Kits :
        /\ \A role \in Roles, now \in Instants : \A offer \in KitOperations(k, role, now) :
             KitOfferAccepted(offer[1], offer[2], k)
        /\ \A role \in Roles :
             /\ RemovalOffered(k, role) => KitRemovalUnblocked(k)
             /\ AddingOffered(k, role) => KitAcceptsMembers(k)
             /\ SelectOffered(k, role) =>
                  \A b \in Bookings, w \in Windows :
                     status[b] = "ABSENT" /\ WindowFree(b, k, w)
                        => MayCreate(b, k, w, NoEditor, TRUE)

\* "Out" is said of the kits that are out, and of no other; and a kit is called
\* ready only when nobody has it and no window on it has begun.
StatesAreTrue ==
    \A k \in Kits, now \in Instants :
        /\ KitState(k, now) = "out" <=> \E b \in Bookings : IsOut(b) /\ kitOf[b] = k
        /\ KitState(k, now) = "ready" =>
             \A b \in Bookings : Live(b) /\ kitOf[b] = k => window[b].start > now

\* Whoever runs the store is always offered a step that takes the booking on.
NoDeadEnd ==
    \A b \in Bookings :
        status[b] \in BookingStatuses \ {"COMPLETED", "CANCELLED"} =>
            \E step \in BookingOffers(b, "ENGINEER") \cap {"draft", "revert", "cancel", "return"} :
                Accepted(b, step)

(***************************************************************************)
(* The pages keep their word.  What they offer is accepted when it is      *)
(* taken up at once: the booking page's flags and kitOperations read other *)
(* columns than the services' guards (a status, the earliest live booking) *)
(* and rely on what the lifecycle keeps true between them.  A kit's state  *)
(* is derived from its earliest live booking alone and is right about the  *)
(* kit all the same, and no unfinished booking is left without a way on.   *)
(* Setting the kit of a booking without a checklist aside is excepted: see *)
(* PageAndGateAgree.                                                       *)
(***************************************************************************)
PagesKeepTheirWord ==
    BookingOffersAreAccepted /\ KitOffersAreAccepted /\ StatesAreTrue /\ NoDeadEnd

(***************************************************************************)
(* "so the page's status panel and the service's refusal agree by          *)
(* construction" (docs/ARCHITECTURE.md:942): a booking with everything the *)
(* page shows in order can be marked ready.  The code does not keep this   *)
(* promise, one run refutes it: the page reads a booking without checklist *)
(* items as prepared, and the service first gives it the kit's template,   *)
(* refuses the answers that are missing and takes the items back.          *)
(***************************************************************************)
PageAndGateAgree ==
    \A b \in Bookings :
        "ready" \in BookingOffers(b, "ENGINEER") /\ ShownFitForHandover(b)
            => \A template \in Checklists : MayMarkReady(b, template)
=============================================================================
