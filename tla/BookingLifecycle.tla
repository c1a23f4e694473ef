-------------------------- MODULE BookingLifecycle --------------------------
(***************************************************************************)
(* The life of bookings and of the kits they hold, from the first draft to *)
(* the completed return: bookings.service.ts, the custody part of          *)
(* handover.service.ts and return.service.ts, the parts of kits.service.ts *)
(* that change a kit's status or whether it has equipment, and the         *)
(* activation of editor profiles in editors.service.ts.                    *)
(*                                                                         *)
(* Every action is one committed transaction of the service function it is *)
(* named after; a call the code refuses throws, rolls back and changes     *)
(* nothing, so it is a step this module does not have.  The pages hide     *)
(* buttons by status but the server actions check a permission only, so    *)
(* any operation may be tried on a booking in any status.                  *)
(*                                                                         *)
(* What people and equipment do is left open: which checks pass, which     *)
(* items come back, when an asset breaks.  contents[k] keeps what the      *)
(* rules read of a kit's equipment:                                        *)
(*     "empty"  no current member (KitLifecycleContext.memberCount = 0);   *)
(*     "fit"    members, every required one available without maintenance; *)
(*     "unfit"  members, some required one not.                            *)
(* Single items, and how they move from kit to kit, are Inventory's: here  *)
(* the lines of a handover document stay with the kit they were taken from. *)
(* Checklist templates are ChecklistTemplates': here the one a kit resolves *)
(* to is whatever the administrators have made of it by then.              *)
(***************************************************************************)
EXTENDS BookingRules

CONSTANTS Bookings,    \* the ids bookings can be given
          Kits,        \* kits in the inventory
          Editors,     \* profiles in the editor directory
          Windows,     \* the windows asked for, records [start, end]
          NoKit, NoWindow, NoEditor

ASSUME LifecycleAssumption ==
    /\ NoKit \notin Kits
    /\ NoEditor \notin Editors
    /\ NoWindow \notin Windows
    /\ Windows \subseteq [start : Int, end : Int]
    /\ \A w \in Windows : PeriodIsOrdered(w)

VARIABLES
    status,         \* status[b]: Booking.status, or ABSENT before the row exists
    kitOf,          \* kitOf[b]: Booking.kitId
    window,         \* window[b]: bookingStart and bookingEnd
    editorOf,       \* editorOf[b]: Booking.editorId; a requester may have no profile
    checklist,      \* checklist[b]: what the booking's own items come to
    handoverDoc,    \* handoverDoc[b]: the live HANDOVER inspection
    docKit,         \* docKit[b]: the kit whose equipment that inspection lists
    docRequires,    \* docRequires[b]: while it is open, some line of it is required
    handedOver,     \* handedOver[b]: some line of it left the store (INCLUDED)
    returnDoc,      \* returnDoc[b]: the live RETURN inspection
    kitStatus,      \* kitStatus[k]: Kit.status
    removedKits,    \* kits with Kit.deletedAt set
    contents,       \* contents[k]: what readiness sees of the kit's equipment
    activeEditors   \* editor profiles with isActive

bookingVars == <<status, kitOf, window, editorOf, checklist,
                 handoverDoc, docKit, docRequires, handedOver, returnDoc>>
termsVars   == <<kitOf, window, editorOf>>
docVars     == <<handoverDoc, docKit, docRequires, handedOver, returnDoc>>
kitVars     == <<kitStatus, removedKits, contents>>
vars        == <<bookingVars, kitVars, activeEditors>>

DocPhases   == {"NONE", "IN_PROGRESS", "COMPLETED"}
KitStatuses == {"AVAILABLE", "RESERVED", "CHECKED_OUT", "MAINTENANCE", "DAMAGED", "RETIRED"}
KitContents == {"empty", "fit", "unfit"}

\* No items; a required handover check without an acceptable answer; none such.
Checklists == {"none", "open", "complete"}

\* Kit statuses an edit of the kit leaves alone.
WorkflowStatuses == {"RESERVED", "CHECKED_OUT"}
ManualStatuses   == {"AVAILABLE", "MAINTENANCE", "DAMAGED", "RETIRED"}

TypeOK ==
    /\ status \in [Bookings -> BookingStatuses \cup {"ABSENT"}]
    /\ kitOf \in [Bookings -> Kits \cup {NoKit}]
    /\ window \in [Bookings -> Windows \cup {NoWindow}]
    /\ editorOf \in [Bookings -> Editors \cup {NoEditor}]
    /\ checklist \in [Bookings -> Checklists]
    /\ handoverDoc \in [Bookings -> DocPhases]
    /\ docKit \in [Bookings -> Kits \cup {NoKit}]
    /\ docRequires \in [Bookings -> BOOLEAN]
    /\ handedOver \in [Bookings -> BOOLEAN]
    /\ returnDoc \in [Bookings -> DocPhases]
    /\ kitStatus \in [Kits -> KitStatuses]
    /\ removedKits \subseteq Kits
    /\ contents \in [Kits -> KitContents]
    /\ activeEditors \subseteq Editors
    \* a booking that exists is for a kit and a window
    /\ \A b \in Bookings : status[b] # "ABSENT" => kitOf[b] \in Kits /\ window[b] \in Windows
    \* and a document that was begun lists the equipment of a kit
    /\ \A b \in Bookings : handoverDoc[b] # "NONE" => docKit[b] \in Kits

Init ==
    /\ status = [b \in Bookings |-> "ABSENT"]
    /\ kitOf = [b \in Bookings |-> NoKit]
    /\ window = [b \in Bookings |-> NoWindow]
    /\ editorOf = [b \in Bookings |-> NoEditor]
    /\ checklist = [b \in Bookings |-> "none"]
    /\ handoverDoc = [b \in Bookings |-> "NONE"]
    /\ docKit = [b \in Bookings |-> NoKit]
    /\ docRequires = [b \in Bookings |-> FALSE]
    /\ handedOver = [b \in Bookings |-> FALSE]
    /\ returnDoc = [b \in Bookings |-> "NONE"]
    /\ kitStatus = [k \in Kits |-> "AVAILABLE"]
    /\ removedKits = {}
    /\ contents = [k \in Kits |-> "empty"]
    /\ activeEditors = Editors

-----------------------------------------------------------------------------
(* What the services read *)

Live(b) == status[b] \in HoldingStatuses

\* OUT_BOOKING_STATUSES of the kits DAL: out of the store, the return inspection included.
IsOut(b) == status[b] \in {"CHECKED_OUT", "OVERDUE", "RETURN_INSPECTION"}

HasLiveBooking(k) == \E b \in Bookings : Live(b) /\ kitOf[b] = k

ContentsLocked(k) ==
    \E b \in Bookings : kitOf[b] = k /\ (status[b] = "READY_FOR_HANDOVER" \/ IsOut(b))

\* requireKit: the kit is in the inventory and not retired.
KitInService(k) == k \notin removedKits /\ kitStatus[k] # "RETIRED"

\* evaluateKitReadinessForBooking: RESERVED and CHECKED_OUT describe today and
\* are set aside; a kit without equipment has no required member to miss.
KitReady(k) ==
    /\ k \notin removedKits
    /\ kitStatus[k] \notin {"RETIRED", "MAINTENANCE", "DAMAGED"}
    /\ contents[k] # "unfit"

\* (Fault) only a booking that is out makes the window taken.
WindowFreeOfOutBookings(b, k, w) ==
    \A c \in Bookings \ {b} :
        IsOut(c) /\ kitOf[c] = k
            => ~RangesOverlap(window[c].start, window[c].end, w.start, w.end)

\* findOverlappingBookings is empty; the exclusion constraint is the same predicate.
WindowFree(b, k, w) ==
    \A c \in Bookings \ {b} :
        Live(c) /\ kitOf[c] = k
            => ~RangesOverlap(window[c].start, window[c].end, w.start, w.end)

\* assertReservable
Reservable(b, k, w) == KitReady(k) /\ WindowFree(b, k, w)

\* requireBookableEditor, where the booking names a directory profile.
EditorBookable(e) == e \in activeEditors \cup {NoEditor}

\* copyChecklistOntoBooking: a booking without items gets those of the kit's
\* template; one that has items keeps them.
CopiedChecklist(b, template) == IF checklist[b] = "none" THEN template ELSE checklist[b]

\* checklistPreparation(items).complete: nothing required is outstanding, which
\* is so of a booking without items too.
Prepared(items) == items # "open"

-----------------------------------------------------------------------------
(* bookings.service.ts.  What lets a call through has a name of its own where    *)
(* the pages rely on it.                                                         *)

MayCreate(b, k, w, e, reserve) ==
    /\ status[b] = "ABSENT"
    /\ EditorBookable(e)
    /\ KitInService(k)
    /\ reserve => Reservable(b, k, w)

\* The checklist copied from the kit's template is complete at once when the
\* template has no required handover check, and there is none without a template.
CreateBooking(b, k, w, e, reserve) ==
    /\ MayCreate(b, k, w, e, reserve)
    /\ status' = [status EXCEPT ![b] = IF reserve THEN "RESERVED" ELSE "DRAFT"]
    /\ kitOf' = [kitOf EXCEPT ![b] = k]
    /\ window' = [window EXCEPT ![b] = w]
    /\ editorOf' = [editorOf EXCEPT ![b] = e]
    /\ \E template \in Checklists : checklist' = [checklist EXCEPT ![b] = template]
    /\ UNCHANGED <<docVars, kitVars, activeEditors>>

ReserveBooking(b) ==
    /\ CanTransition(status[b], "RESERVED")
    /\ EditorBookable(editorOf[b])
    /\ KitInService(kitOf[b])
    /\ Reservable(b, kitOf[b], window[b])
    /\ status' = [status EXCEPT ![b] = "RESERVED"]
    /\ UNCHANGED <<termsVars, checklist, docVars, kitVars, activeEditors>>

MayReturnToDraft(b) == CanTransition(status[b], "DRAFT")

ReturnToDraft(b) ==
    /\ MayReturnToDraft(b)
    /\ status' = [status EXCEPT ![b] = "DRAFT"]
    /\ UNCHANGED <<termsVars, checklist, docVars, kitVars, activeEditors>>

\* (Fault) the booking's new status is written to the kit.
SetKitAsideAsBooking(k) ==
    kitStatus' = [kitStatus EXCEPT ![k] = "READY_FOR_HANDOVER"]

\* (Fault) the kit becomes available whatever its status was.
PutKitBackAlways(k) ==
    kitStatus' = [kitStatus EXCEPT ![k] = "AVAILABLE"]

\* setKitAside re-reads the kit and moves it between AVAILABLE and RESERVED
\* only; with any other status it returns without a word.
SetKitAside(k) ==
    kitStatus' = [kitStatus EXCEPT ![k] = IF @ = "AVAILABLE" THEN "RESERVED" ELSE @]
PutKitBack(k) ==
    kitStatus' = [kitStatus EXCEPT ![k] = IF @ = "RESERVED" THEN "AVAILABLE" ELSE @]

\* The copy comes first and is rolled back with a refusal: a booking without
\* items is asked for the answers to checks it has never shown.
MayMarkReady(b, template) ==
    /\ CanTransition(status[b], "READY_FOR_HANDOVER")
    /\ EditorBookable(editorOf[b])
    /\ Prepared(CopiedChecklist(b, template))
    /\ Reservable(b, kitOf[b], window[b])

MarkReadyForHandover(b, template) ==
    /\ MayMarkReady(b, template)
    /\ status' = [status EXCEPT ![b] = "READY_FOR_HANDOVER"]
    /\ checklist' = [checklist EXCEPT ![b] = CopiedChecklist(b, template)]
    /\ SetKitAside(kitOf[b])
    /\ UNCHANGED <<termsVars, docVars, removedKits, contents, activeEditors>>

\* Nothing is checked here but the transition; the exclusion constraint still
\* refuses the update when the booking would begin to hold a taken window.
MayRevert(b) ==
    /\ CanTransition(status[b], "RESERVED")
    /\ WindowFree(b, kitOf[b], window[b])

RevertReadyForHandover(b) ==
    /\ MayRevert(b)
    /\ status' = [status EXCEPT ![b] = "RESERVED"]
    /\ PutKitBack(kitOf[b])
    /\ UNCHANGED <<termsVars, checklist, docVars, removedKits, contents, activeEditors>>

MayCancel(b) == IsCancellable(status[b])

CancelBooking(b) ==
    /\ MayCancel(b)
    /\ status' = [status EXCEPT ![b] = "CANCELLED"]
    /\ IF status[b] = "READY_FOR_HANDOVER" THEN PutKitBack(kitOf[b]) ELSE UNCHANGED kitStatus
    /\ UNCHANGED <<termsVars, checklist, docVars, removedKits, contents, activeEditors>>

\* A structural edit; one of the requester's details, the engineer or the
\* notes alone changes nothing modelled here.  A profile can be replaced but
\* not taken away.  A new kit brings its own checklist unless answers were given;
\* a handover document that was begun stays as it is.
UpdateBooking(b, k, w, e) ==
    /\ status[b] # "ABSENT"
    /\ EditScopeFor(status[b]) = "full"
    /\ <<k, w, e>> # <<kitOf[b], window[b], editorOf[b]>>
    /\ e # editorOf[b] => e \in activeEditors
    /\ k # kitOf[b] => KitInService(k)
    /\ Live(b) /\ <<k, w>> # <<kitOf[b], window[b]>> => Reservable(b, k, w)
    /\ kitOf' = [kitOf EXCEPT ![b] = k]
    /\ window' = [window EXCEPT ![b] = w]
    /\ editorOf' = [editorOf EXCEPT ![b] = e]
    /\ \E items \in IF k = kitOf[b] THEN {checklist[b]} ELSE Checklists :
         checklist' = [checklist EXCEPT ![b] = items]
    /\ UNCHANGED <<status, docVars, kitVars, activeEditors>>

MayPrepare(b) ==
    /\ status[b] \in {"DRAFT", "RESERVED", "READY_FOR_HANDOVER"}
    /\ handoverDoc[b] = "NONE"

PrepareChecklist(b) ==
    /\ MayPrepare(b)
    /\ checklist[b] # "none"
    /\ \E answered \in {"open", "complete"} :
         checklist' = [checklist EXCEPT ![b] = answered]
    /\ UNCHANGED <<status, termsVars, docVars, kitVars, activeEditors>>

-----------------------------------------------------------------------------
(* handover.service.ts *)

\* (Fault) nobody asks whether the kit is set aside.
HandoverUnblockedWithoutHold(b) ==
    /\ status[b] = "READY_FOR_HANDOVER"
    /\ EditorBookable(editorOf[b])
    /\ contents[kitOf[b]] # "empty"
    /\ KitReady(kitOf[b])

\* bookingHandoverBlockers is empty.
HandoverUnblocked(b) ==
    /\ status[b] = "READY_FOR_HANDOVER"
    /\ EditorBookable(editorOf[b])
    /\ kitOf[b] \notin removedKits
    /\ kitStatus[kitOf[b]] = "RESERVED"
    /\ contents[kitOf[b]] # "empty"
    /\ KitReady(kitOf[b])

\* Starting again finds the live inspection, whatever it lists, and changes
\* nothing.  A booking still without a checklist gets its copy now.
StartHandover(b, template) ==
    /\ handoverDoc[b] = "NONE"
    /\ HandoverUnblocked(b)
    /\ handoverDoc' = [handoverDoc EXCEPT ![b] = "IN_PROGRESS"]
    /\ docKit' = [docKit EXCEPT ![b] = kitOf[b]]
    /\ \E some \in BOOLEAN : docRequires' = [docRequires EXCEPT ![b] = some]
    /\ checklist' = [checklist EXCEPT ![b] = CopiedChecklist(b, template)]
    /\ UNCHANGED <<status, termsVars, handedOver, returnDoc, kitVars, activeEditors>>

\* verificationVerdict's stillInKit: a line whose equipment is not in the
\* booking's kit stands in the way, if it is required and only then.
LinesStillInKit(b) == docRequires[b] => docKit[b] = kitOf[b]

\* What readiness finds after the recorded conditions were written to the
\* assets: whatever people recorded, on a kit that has equipment at all.
Reassessed(k) == IF contents[k] = "empty" THEN {"empty"} ELSE {"fit", "unfit"}

\* The rest of the verdict, on the recorded lines, answers and signatures, is
\* the desk's to give.  Where some line is required, it left.  Equipment listed
\* for another kit is optional there, and its going out changes neither kit's
\* readiness.
CompleteHandover(b) ==
    /\ HandoverUnblocked(b)
    /\ handoverDoc[b] = "IN_PROGRESS"
    /\ LinesStillInKit(b)
    /\ handoverDoc' = [handoverDoc EXCEPT ![b] = "COMPLETED"]
    /\ docRequires' = [docRequires EXCEPT ![b] = FALSE]
    /\ status' = [status EXCEPT ![b] = "CHECKED_OUT"]
    /\ kitStatus' = [kitStatus EXCEPT ![kitOf[b]] = "CHECKED_OUT"]
    /\ \E left \in BOOLEAN, after \in Reassessed(kitOf[b]) :
         /\ docRequires[b] => left
         /\ handedOver' = [handedOver EXCEPT ![b] = left]
         /\ contents' = [contents EXCEPT ![kitOf[b]] =
                            IF left /\ docKit[b] = kitOf[b] THEN after ELSE @]
    /\ UNCHANGED <<termsVars, checklist, docKit, returnDoc, removedKits, activeEditors>>

-----------------------------------------------------------------------------
(* return.service.ts *)

\* bookingReturnBlockers, for a booking whose return has (not) been started.
ReturnBlockers(b, started) ==
    {r \in {"status", "handover", "kit"} :
        \/ /\ r = "status"
           /\ IF started THEN status[b] # "RETURN_INSPECTION" ELSE ~CanStartReturn(status[b])
        \/ r = "handover" /\ handoverDoc[b] # "COMPLETED"
        \/ r = "kit" /\ kitOf[b] \in removedKits}

MayStartReturn(b) == returnDoc[b] = "NONE" /\ ReturnBlockers(b, FALSE) = {}

StartReturn(b) ==
    /\ MayStartReturn(b)
    /\ returnDoc' = [returnDoc EXCEPT ![b] = "IN_PROGRESS"]
    /\ status' = [status EXCEPT ![b] = "RETURN_INSPECTION"]
    /\ UNCHANGED <<termsVars, checklist, handoverDoc, docKit, docRequires, handedOver,
                   kitVars, activeEditors>>

\* returnVerdict refuses a return with no handed-over line to account for; the
\* answers and the engineer's signature are the desk's.  What comes back is the
\* equipment listed; the kit's status is evaluated from the kit's own:
\* maintenance or damage when it is not ready.
CompleteReturn(b) ==
    /\ ReturnBlockers(b, TRUE) = {}
    /\ returnDoc[b] = "IN_PROGRESS"
    /\ handedOver[b]
    /\ returnDoc' = [returnDoc EXCEPT ![b] = "COMPLETED"]
    /\ status' = [status EXCEPT ![b] = "COMPLETED"]
    /\ \E after \in Reassessed(docKit[b]) : contents' = [contents EXCEPT ![docKit[b]] = after]
    /\ \E next \in IF contents'[kitOf[b]] = "unfit" THEN {"MAINTENANCE", "DAMAGED"}
                   ELSE {"AVAILABLE"} :
         kitStatus' = [kitStatus EXCEPT ![kitOf[b]] = next]
    /\ UNCHANGED <<termsVars, checklist, handoverDoc, docKit, docRequires, handedOver,
                   removedKits, activeEditors>>

-----------------------------------------------------------------------------
(* kits.service.ts *)

\* (Fault) the label of a kit that is out is edited like any other.
AllowedKitStatusTransitionsWhileOut(k) ==
    IF kitStatus[k] = "RESERVED" THEN {"RESERVED"} ELSE ManualStatuses

AllowedKitStatusTransitions(k) ==
    IF kitStatus[k] \in WorkflowStatuses THEN {kitStatus[k]}
    ELSE (ManualStatuses \cup {kitStatus[k]})
           \ (IF contents[k] # "empty" \/ HasLiveBooking(k) THEN {"RETIRED"} ELSE {})

UpdateKit(k, s) ==
    /\ k \notin removedKits
    /\ s # kitStatus[k]
    /\ s \in AllowedKitStatusTransitions(k)
    /\ kitStatus' = [kitStatus EXCEPT ![k] = s]
    /\ UNCHANGED <<bookingVars, removedKits, contents, activeEditors>>

\* (Fault) removal without kitRemovalBlocker.
RemoveKitAnyway(k) ==
    /\ k \notin removedKits
    /\ removedKits' = removedKits \cup {k}
    /\ UNCHANGED <<bookingVars, kitStatus, contents, activeEditors>>

KitRemovalUnblocked(k) ==
    /\ k \notin removedKits
    /\ ~HasLiveBooking(k)
    /\ kitStatus[k] \notin WorkflowStatuses
    /\ contents[k] = "empty"

RemoveKit(k) ==
    /\ KitRemovalUnblocked(k)
    /\ removedKits' = removedKits \cup {k}
    /\ UNCHANGED <<bookingVars, kitStatus, contents, activeEditors>>

KitAcceptsMembers(k) == KitInService(k) /\ ~ContentsLocked(k)

\* Equipment joins an empty kit; only an available asset may.
AddKitAsset(k) ==
    /\ KitAcceptsMembers(k)
    /\ contents[k] = "empty"
    /\ contents' = [contents EXCEPT ![k] = "fit"]
    /\ UNCHANGED <<bookingVars, kitStatus, removedKits, activeEditors>>

\* Equipment leaves: the last of it, or the member that made the kit unfit.
RemoveKitAsset(k) ==
    /\ ~ContentsLocked(k)
    /\ contents[k] # "empty"
    /\ \E after \in {"empty", "fit"} :
         /\ after # contents[k]
         /\ contents' = [contents EXCEPT ![k] = after]
    /\ UNCHANGED <<bookingVars, kitStatus, removedKits, activeEditors>>

\* A member's status (updateAsset) or its maintenance records change; neither
\* asks whether contents are locked.
EquipmentChanges(k) ==
    /\ contents[k] # "empty"
    /\ contents' = [contents EXCEPT ![k] = IF @ = "fit" THEN "unfit" ELSE "fit"]
    /\ UNCHANGED <<bookingVars, kitStatus, removedKits, activeEditors>>

\* Nor does changing which members are required, which an open document that
\* lists them reads from the membership.
UpdateKitAsset(k, b) ==
    /\ k \notin removedKits /\ contents[k] # "empty"
    /\ handoverDoc[b] = "IN_PROGRESS" /\ docKit[b] = k
    /\ docRequires' = [docRequires EXCEPT ![b] = ~@]
    /\ \E after \in {"fit", "unfit"} : contents' = [contents EXCEPT ![k] = after]
    /\ UNCHANGED <<status, termsVars, checklist, handoverDoc, docKit, handedOver, returnDoc,
                   kitStatus, removedKits, activeEditors>>

-----------------------------------------------------------------------------
(* editors.service.ts *)

\* (Fault) deactivation without editorDeactivationBlocker.
SetEditorActiveUnblocked(e) ==
    /\ activeEditors' = IF e \in activeEditors THEN activeEditors \ {e} ELSE activeEditors \cup {e}
    /\ UNCHANGED <<bookingVars, kitVars>>

\* setEditorActive; a profile with a live booking is not deactivated.
SetEditorActive(e) ==
    /\ IF e \in activeEditors
         THEN /\ \A b \in Bookings : editorOf[b] = e => ~Live(b)
              /\ activeEditors' = activeEditors \ {e}
         ELSE activeEditors' = activeEditors \cup {e}
    /\ UNCHANGED <<bookingVars, kitVars>>

-----------------------------------------------------------------------------
BookingStep(b) ==
    \/ \E k \in Kits, w \in Windows, e \in Editors \cup {NoEditor} :
         \/ \E reserve \in BOOLEAN : CreateBooking(b, k, w, e, reserve)
         \/ UpdateBooking(b, k, w, e)
    \/ ReserveBooking(b)
    \/ ReturnToDraft(b)
    \/ \E template \in Checklists : MarkReadyForHandover(b, template) \/ StartHandover(b, template)
    \/ RevertReadyForHandover(b)
    \/ CancelBooking(b)
    \/ PrepareChecklist(b)
    \/ CompleteHandover(b)
    \/ StartReturn(b)
    \/ CompleteReturn(b)

KitStep(k) ==
    \/ \E s \in KitStatuses : UpdateKit(k, s)
    \/ RemoveKit(k)
    \/ AddKitAsset(k)
    \/ RemoveKitAsset(k)
    \/ EquipmentChanges(k)
    \/ \E b \in Bookings : UpdateKitAsset(k, b)

Next ==
    \/ \E b \in Bookings : BookingStep(b)
    \/ \E k \in Kits : KitStep(k)
    \/ \E e \in Editors : SetEditorActive(e)

Spec == Init /\ [][Next]_vars
=============================================================================
