---------------------------- MODULE BookingProofs ---------------------------
(***************************************************************************)
(* Theorems about BookingLifecycle and the pages over it, for any number   *)
(* of bookings, kits, editors and windows.                                 *)
(***************************************************************************)
EXTENDS Pages, FiniteSetTheorems, WellFoundedInduction, TLAPS

USE LifecycleAssumption

(***************************************************************************)
(* Every step of the services keeps the state well typed, and a booking    *)
(* that exists keeps a kit and a window.                                   *)
(***************************************************************************)
LEMMA TypeStep == TypeOK /\ [Next]_vars => TypeOK'
<1> SUFFICES ASSUME TypeOK, [Next]_vars PROVE TypeOK'
  OBVIOUS
<1> USE DEF TypeOK, BookingStatuses, DocPhases, KitStatuses, KitContents, Checklists,
            bookingVars, termsVars, docVars, kitVars
<1>1. ASSUME NEW b \in Bookings, NEW k \in Kits, NEW w \in Windows,
             NEW e \in Editors \cup {NoEditor}, NEW reserve \in BOOLEAN,
             CreateBooking(b, k, w, e, reserve)
      PROVE  TypeOK'
  BY <1>1 DEF CreateBooking, MayCreate
<1>2. ASSUME NEW b \in Bookings, NEW k \in Kits, NEW w \in Windows,
             NEW e \in Editors \cup {NoEditor}, UpdateBooking(b, k, w, e)
      PROVE  TypeOK'
  BY <1>2 DEF UpdateBooking
<1>3. ASSUME NEW b \in Bookings, ReserveBooking(b) PROVE TypeOK'
  BY <1>3 DEF ReserveBooking, CanTransition, ManualTransitions
<1>4. ASSUME NEW b \in Bookings, ReturnToDraft(b) PROVE TypeOK'
  BY <1>4 DEF ReturnToDraft, MayReturnToDraft, CanTransition, ManualTransitions
<1>5. ASSUME NEW b \in Bookings, NEW template \in Checklists, MarkReadyForHandover(b, template)
      PROVE  TypeOK'
  BY <1>5 DEF MarkReadyForHandover, MayMarkReady, CopiedChecklist, SetKitAside, CanTransition,
              ManualTransitions
<1>6. ASSUME NEW b \in Bookings, RevertReadyForHandover(b) PROVE TypeOK'
  BY <1>6 DEF RevertReadyForHandover, MayRevert, PutKitBack, CanTransition, ManualTransitions
<1>7. ASSUME NEW b \in Bookings, CancelBooking(b) PROVE TypeOK'
  BY <1>7 DEF CancelBooking, MayCancel, PutKitBack, IsCancellable, CanTransition, ManualTransitions
<1>8. ASSUME NEW b \in Bookings, PrepareChecklist(b) PROVE TypeOK'
  BY <1>8 DEF PrepareChecklist, MayPrepare
<1>9. ASSUME NEW b \in Bookings, NEW template \in Checklists, StartHandover(b, template)
      PROVE  TypeOK'
  BY <1>9 DEF StartHandover, HandoverUnblocked, CopiedChecklist
<1>10. ASSUME NEW b \in Bookings, CompleteHandover(b) PROVE TypeOK'
  BY <1>10 DEF CompleteHandover, HandoverUnblocked, Reassessed
<1>11. ASSUME NEW b \in Bookings, StartReturn(b) PROVE TypeOK'
  BY <1>11 DEF StartReturn, MayStartReturn, ReturnBlockers, CanStartReturn, ReturnStartStatuses
<1>12. ASSUME NEW b \in Bookings, CompleteReturn(b) PROVE TypeOK'
  <2>1. kitOf[b] \in Kits /\ docKit[b] \in Kits
    BY <1>12 DEF CompleteReturn, ReturnBlockers
  <2>2. contents' \in [Kits -> KitContents]
    BY <1>12, <2>1 DEF CompleteReturn, Reassessed
  <2>3. kitStatus' \in [Kits -> KitStatuses]
    BY <1>12, <2>1 DEF CompleteReturn
  <2>4. /\ status' = [status EXCEPT ![b] = "COMPLETED"]
        /\ returnDoc' = [returnDoc EXCEPT ![b] = "COMPLETED"]
        /\ UNCHANGED <<kitOf, window, editorOf, checklist, handoverDoc, docKit, docRequires,
                       handedOver, removedKits, activeEditors>>
    BY <1>12 DEF CompleteReturn
  <2>5. \A c \in Bookings : status'[c] # "ABSENT" => status[c] # "ABSENT"
    BY <1>12, <2>4 DEF CompleteReturn, ReturnBlockers
  <2> QED
    BY <2>2, <2>3, <2>4, <2>5
<1>13. ASSUME NEW k \in Kits, NEW s \in KitStatuses, UpdateKit(k, s) PROVE TypeOK'
  BY <1>13 DEF UpdateKit
<1>14. ASSUME NEW k \in Kits, RemoveKit(k) PROVE TypeOK'
  BY <1>14 DEF RemoveKit, KitRemovalUnblocked
<1>15. ASSUME NEW k \in Kits, AddKitAsset(k) PROVE TypeOK'
  BY <1>15 DEF AddKitAsset, KitAcceptsMembers
<1>16. ASSUME NEW k \in Kits, RemoveKitAsset(k) PROVE TypeOK'
  BY <1>16 DEF RemoveKitAsset
<1>17. ASSUME NEW k \in Kits, EquipmentChanges(k) PROVE TypeOK'
  BY <1>17 DEF EquipmentChanges
<1>17a. ASSUME NEW k \in Kits, NEW b \in Bookings, UpdateKitAsset(k, b) PROVE TypeOK'
  BY <1>17a DEF UpdateKitAsset
<1>18. ASSUME NEW e \in Editors, SetEditorActive(e) PROVE TypeOK'
  BY <1>18 DEF SetEditorActive
<1>19. CASE UNCHANGED vars
  BY <1>19 DEF vars
<1> QED
  BY <1>1, <1>2, <1>3, <1>4, <1>5, <1>6, <1>7, <1>8, <1>9, <1>10, <1>11, <1>12,
     <1>13, <1>14, <1>15, <1>16, <1>17, <1>17a, <1>18, <1>19 DEF Next, BookingStep, KitStep

\* Type correctness of the lifecycle, for every instance.
THEOREM TypeCorrect == Spec => []TypeOK
<1>1. Init => TypeOK
  BY DEF Init, TypeOK, BookingStatuses, DocPhases, KitStatuses, KitContents, Checklists
<1> QED
  BY <1>1, TypeStep, PTL DEF Spec

-----------------------------------------------------------------------------
(* Custody *)

\* The handover's completion and the two steps of the return.
CustodyStep ==
    \E b \in Bookings : CompleteHandover(b) \/ StartReturn(b) \/ CompleteReturn(b)

\* Nothing about who has which kit, or about finished documents, changes.
CustodyUnchanged ==
    /\ \A b \in Bookings :
         /\ IsOut(b)' <=> IsOut(b)
         /\ IsOut(b) => kitOf'[b] = kitOf[b] /\ status'[b] = status[b]
         /\ status'[b] = "COMPLETED" <=> status[b] = "COMPLETED"
         /\ handoverDoc'[b] = "COMPLETED" <=> handoverDoc[b] = "COMPLETED"
    /\ returnDoc' = returnDoc
    /\ \A k \in Kits : kitStatus'[k] = "CHECKED_OUT" <=> kitStatus[k] = "CHECKED_OUT"

(***************************************************************************)
(* Whatever else the services do leaves custody alone: the bookings that   *)
(* are out, their kits, the kits labelled CHECKED_OUT, finished documents. *)
(***************************************************************************)
LEMMA OtherSteps == TypeOK /\ [Next]_vars /\ ~CustodyStep => CustodyUnchanged
<1> SUFFICES ASSUME TypeOK, [Next]_vars, ~CustodyStep PROVE CustodyUnchanged
  OBVIOUS
<1> USE DEF TypeOK, CustodyUnchanged, IsOut, bookingVars, termsVars, docVars, kitVars,
            CanTransition, ManualTransitions
<1>1. ASSUME NEW b \in Bookings, NEW k \in Kits, NEW w \in Windows,
             NEW e \in Editors \cup {NoEditor}, NEW reserve \in BOOLEAN,
             CreateBooking(b, k, w, e, reserve)
      PROVE  CustodyUnchanged
  BY <1>1 DEF CreateBooking, MayCreate
<1>2. ASSUME NEW b \in Bookings, NEW k \in Kits, NEW w \in Windows,
             NEW e \in Editors \cup {NoEditor}, UpdateBooking(b, k, w, e)
      PROVE  CustodyUnchanged
  BY <1>2 DEF UpdateBooking, EditScopeFor
<1>3. ASSUME NEW b \in Bookings, ReserveBooking(b) PROVE CustodyUnchanged
  BY <1>3 DEF ReserveBooking
<1>4. ASSUME NEW b \in Bookings, ReturnToDraft(b) PROVE CustodyUnchanged
  BY <1>4 DEF ReturnToDraft, MayReturnToDraft
<1>5. ASSUME NEW b \in Bookings, NEW template \in Checklists, MarkReadyForHandover(b, template)
      PROVE  CustodyUnchanged
  BY <1>5 DEF MarkReadyForHandover, MayMarkReady, SetKitAside
<1>6. ASSUME NEW b \in Bookings, RevertReadyForHandover(b) PROVE CustodyUnchanged
  BY <1>6 DEF RevertReadyForHandover, MayRevert, PutKitBack
<1>7. ASSUME NEW b \in Bookings, CancelBooking(b) PROVE CustodyUnchanged
  BY <1>7 DEF CancelBooking, MayCancel, PutKitBack, IsCancellable
<1>8. ASSUME NEW b \in Bookings, PrepareChecklist(b) PROVE CustodyUnchanged
  BY <1>8 DEF PrepareChecklist, MayPrepare
<1>9. ASSUME NEW b \in Bookings, NEW template \in Checklists, StartHandover(b, template)
      PROVE  CustodyUnchanged
  BY <1>9 DEF StartHandover, DocPhases
<1>10. ASSUME NEW k \in Kits, NEW s \in KitStatuses, UpdateKit(k, s) PROVE CustodyUnchanged
  BY <1>10 DEF UpdateKit, AllowedKitStatusTransitions, WorkflowStatuses, ManualStatuses
<1>11. ASSUME NEW k \in Kits, RemoveKit(k) PROVE CustodyUnchanged
  BY <1>11 DEF RemoveKit, KitRemovalUnblocked
<1>12. ASSUME NEW k \in Kits, AddKitAsset(k) PROVE CustodyUnchanged
  BY <1>12 DEF AddKitAsset, KitAcceptsMembers
<1>13. ASSUME NEW k \in Kits, RemoveKitAsset(k) PROVE CustodyUnchanged
  BY <1>13 DEF RemoveKitAsset
<1>14. ASSUME NEW k \in Kits, EquipmentChanges(k) PROVE CustodyUnchanged
  BY <1>14 DEF EquipmentChanges
<1>14a. ASSUME NEW k \in Kits, NEW b \in Bookings, UpdateKitAsset(k, b) PROVE CustodyUnchanged
  BY <1>14a DEF UpdateKitAsset
<1>15. ASSUME NEW e \in Editors, SetEditorActive(e) PROVE CustodyUnchanged
  BY <1>15 DEF SetEditorActive
<1>16. CASE UNCHANGED vars
  BY <1>16 DEF vars
<1> QED
  BY <1>1, <1>2, <1>3, <1>4, <1>5, <1>6, <1>7, <1>8, <1>9, <1>10, <1>11, <1>12,
     <1>13, <1>14, <1>14a, <1>15, <1>16 DEF Next, BookingStep, KitStep, CustodyStep

CustodyInv == TypeOK /\ OneBookingOutPerKit /\ CheckedOutExactlyWhileOut

\* Custody is inductive: a kit leaves the store from RESERVED only, when no
\* booking has it, and is relabelled by the return of the booking that has it.
LEMMA CustodyInductive == CustodyInv /\ [Next]_vars => CustodyInv'
<1> SUFFICES ASSUME CustodyInv, [Next]_vars
             PROVE  OneBookingOutPerKit' /\ CheckedOutExactlyWhileOut'
  BY TypeStep DEF CustodyInv
<1> USE DEF CustodyInv, OneBookingOutPerKit, CheckedOutExactlyWhileOut
<1>1. ASSUME NEW b \in Bookings, CompleteHandover(b)
      PROVE  OneBookingOutPerKit' /\ CheckedOutExactlyWhileOut'
  <2>1. kitOf[b] \in Kits /\ kitOf' = kitOf /\ ~IsOut(b)
    BY <1>1 DEF CompleteHandover, HandoverUnblocked, TypeOK, IsOut, termsVars
  <2>2. \A c \in Bookings : IsOut(c) => kitOf[c] # kitOf[b]
    BY <1>1, <2>1 DEF CompleteHandover, HandoverUnblocked
  <2>3. \A c \in Bookings : IsOut(c)' <=> IsOut(c) \/ c = b
    BY <1>1 DEF CompleteHandover, TypeOK, IsOut
  <2>4. \A k \in Kits : kitStatus'[k] = IF k = kitOf[b] THEN "CHECKED_OUT" ELSE kitStatus[k]
    BY <1>1, <2>1 DEF CompleteHandover, TypeOK
  <2> QED
    BY <2>1, <2>2, <2>3, <2>4
<1>2. ASSUME NEW b \in Bookings, StartReturn(b)
      PROVE  OneBookingOutPerKit' /\ CheckedOutExactlyWhileOut'
  <2>1. kitOf' = kitOf /\ kitStatus' = kitStatus
    BY <1>2 DEF StartReturn, MayStartReturn, termsVars, kitVars
  <2>2. \A c \in Bookings : IsOut(c)' <=> IsOut(c)
    BY <1>2 DEF StartReturn, MayStartReturn, ReturnBlockers, CanStartReturn, ReturnStartStatuses, TypeOK, IsOut
  <2> QED
    BY <2>1, <2>2
<1>3. ASSUME NEW b \in Bookings, CompleteReturn(b)
      PROVE  OneBookingOutPerKit' /\ CheckedOutExactlyWhileOut'
  <2>1. IsOut(b) /\ kitOf[b] \in Kits /\ kitOf' = kitOf
    BY <1>3 DEF CompleteReturn, ReturnBlockers, TypeOK, IsOut, termsVars
  <2>2. \A c \in Bookings : IsOut(c)' <=> IsOut(c) /\ c # b
    BY <1>3 DEF CompleteReturn, TypeOK, IsOut
  <2>3. /\ kitStatus'[kitOf[b]] # "CHECKED_OUT"
        /\ \A k \in Kits \ {kitOf[b]} : kitStatus'[k] = kitStatus[k]
    BY <1>3, <2>1 DEF CompleteReturn, TypeOK
  <2> QED
    BY <2>1, <2>2, <2>3
<1>4. CASE ~CustodyStep
  <2>1. CustodyUnchanged
    BY <1>4, OtherSteps
  <2> QED
    BY <2>1 DEF CustodyUnchanged
<1> QED
  BY <1>1, <1>2, <1>3, <1>4 DEF CustodyStep

LEMMA CustodyInitially == Init => CustodyInv
BY DEF Init, CustodyInv, TypeOK, OneBookingOutPerKit, CheckedOutExactlyWhileOut, IsOut,
       BookingStatuses, DocPhases, KitStatuses, KitContents, Checklists

\* A kit is never out with two bookings.
THEOREM OneCustodian == Spec => []OneBookingOutPerKit
BY CustodyInitially, CustodyInductive, PTL DEF Spec, CustodyInv

\* A kit's record says CHECKED_OUT exactly while a booking has the kit.
THEOREM LabelTellsCustody == Spec => []CheckedOutExactlyWhileOut
BY CustodyInitially, CustodyInductive, PTL DEF Spec, CustodyInv

(***************************************************************************)
(* A kit is relabelled from CHECKED_OUT by the return of the booking that  *)
(* has it, and by nothing else.                                            *)
(***************************************************************************)
THEOREM RelabelledByReturn == Spec => LeavesCheckedOutByReturn
<1> DEFINE Relabelled ==
      \A k \in Kits :
         kitStatus[k] = "CHECKED_OUT" /\ kitStatus'[k] # "CHECKED_OUT"
            => \E b \in Bookings :
                 /\ kitOf[b] = k
                 /\ status[b] = "RETURN_INSPECTION" /\ status'[b] = "COMPLETED"
<1>1. TypeOK /\ [Next]_vars => Relabelled
  <2> SUFFICES ASSUME TypeOK, [Next]_vars PROVE Relabelled
    OBVIOUS
  <2>1. ASSUME NEW b \in Bookings, CompleteHandover(b) PROVE Relabelled
    BY <2>1 DEF CompleteHandover, TypeOK
  <2>2. ASSUME NEW b \in Bookings, StartReturn(b) PROVE Relabelled
    BY <2>2 DEF StartReturn, MayStartReturn, kitVars
  <2>3. ASSUME NEW b \in Bookings, CompleteReturn(b) PROVE Relabelled
    <3>1. status[b] = "RETURN_INSPECTION" /\ status'[b] = "COMPLETED"
      BY <2>3 DEF CompleteReturn, ReturnBlockers, TypeOK
    <3>2. \A k \in Kits \ {kitOf[b]} : kitStatus'[k] = kitStatus[k]
      BY <2>3 DEF CompleteReturn, TypeOK
    <3> QED
      BY <3>1, <3>2
  <2>4. CASE ~CustodyStep
    BY <2>4, OtherSteps DEF CustodyUnchanged
  <2> QED
    BY <2>1, <2>2, <2>3, <2>4 DEF CustodyStep
<1>2. [Next]_vars /\ TypeOK /\ TypeOK' => [Relabelled]_vars
  BY <1>1
<1> QED
  BY <1>2, TypeCorrect, PTL DEF Spec, LeavesCheckedOutByReturn

-----------------------------------------------------------------------------
(* Documents *)

DocumentsInv == TypeOK /\ DocumentsMatchStatus

LEMMA DocumentsInductive == DocumentsInv /\ [Next]_vars => DocumentsInv'
<1> SUFFICES ASSUME DocumentsInv, [Next]_vars PROVE DocumentsMatchStatus'
  BY TypeStep DEF DocumentsInv
<1> USE DEF DocumentsInv, DocumentsMatchStatus
<1>1. ASSUME NEW b \in Bookings, CompleteHandover(b) PROVE DocumentsMatchStatus'
  BY <1>1 DEF CompleteHandover, HandoverUnblocked, TypeOK, IsOut
<1>2. ASSUME NEW b \in Bookings, StartReturn(b) PROVE DocumentsMatchStatus'
  BY <1>2 DEF StartReturn, MayStartReturn, ReturnBlockers, CanStartReturn, ReturnStartStatuses, TypeOK, IsOut
<1>3. ASSUME NEW b \in Bookings, CompleteReturn(b) PROVE DocumentsMatchStatus'
  BY <1>3 DEF CompleteReturn, ReturnBlockers, TypeOK, IsOut
<1>4. CASE ~CustodyStep
  <2>1. CustodyUnchanged
    BY <1>4, OtherSteps
  <2>2. ASSUME NEW b \in Bookings
        PROVE  status'[b] = "RETURN_INSPECTION" <=> status[b] = "RETURN_INSPECTION"
    BY <2>1 DEF CustodyUnchanged, IsOut
  <2> QED
    BY <2>1, <2>2 DEF CustodyUnchanged
<1> QED
  BY <1>1, <1>2, <1>3, <1>4 DEF CustodyStep

\* The handover and return documents and the booking's status always agree.
THEOREM DocumentsAgree == Spec => []DocumentsMatchStatus
<1>1. Init => DocumentsInv
  BY DEF Init, DocumentsInv, DocumentsMatchStatus, IsOut, TypeOK,
         BookingStatuses, DocPhases, KitStatuses, KitContents, Checklists
<1> QED
  BY <1>1, DocumentsInductive, PTL DEF Spec, DocumentsInv

-----------------------------------------------------------------------------
(* Commitments *)

CommitmentsInv == TypeOK /\ CommitmentsKept

\* A booking becomes ready only after the checks; the kit and the profile of a
\* live booking are protected by the blockers of the kits and editors services.
LEMMA CommitmentsInductive == CommitmentsInv /\ [Next]_vars => CommitmentsInv'
<1> SUFFICES ASSUME CommitmentsInv, [Next]_vars PROVE CommitmentsKept'
  BY TypeStep DEF CommitmentsInv
<1> USE DEF CommitmentsInv, CommitmentsKept, TypeOK, IsOut, KitInService, EditorBookable,
            bookingVars, termsVars, docVars, kitVars, CanTransition, ManualTransitions
<1>1. ASSUME NEW b \in Bookings, NEW k \in Kits, NEW w \in Windows,
             NEW e \in Editors \cup {NoEditor}, NEW reserve \in BOOLEAN,
             CreateBooking(b, k, w, e, reserve)
      PROVE  CommitmentsKept'
  BY <1>1 DEF CreateBooking, MayCreate
<1>2. ASSUME NEW b \in Bookings, NEW k \in Kits, NEW w \in Windows,
             NEW e \in Editors \cup {NoEditor}, UpdateBooking(b, k, w, e)
      PROVE  CommitmentsKept'
  <2>1. status[b] \in {"DRAFT", "RESERVED"}
    BY <1>2 DEF UpdateBooking, EditScopeFor
  <2> QED
    BY <1>2, <2>1 DEF UpdateBooking
<1>3. ASSUME NEW b \in Bookings, ReserveBooking(b) PROVE CommitmentsKept'
  BY <1>3 DEF ReserveBooking
<1>4. ASSUME NEW b \in Bookings, ReturnToDraft(b) PROVE CommitmentsKept'
  BY <1>4 DEF ReturnToDraft, MayReturnToDraft
<1>5. ASSUME NEW b \in Bookings, NEW template \in Checklists, MarkReadyForHandover(b, template)
      PROVE  CommitmentsKept'
  BY <1>5 DEF MarkReadyForHandover, MayMarkReady, SetKitAside, Reservable, KitReady
<1>6. ASSUME NEW b \in Bookings, RevertReadyForHandover(b) PROVE CommitmentsKept'
  BY <1>6 DEF RevertReadyForHandover, MayRevert, PutKitBack
<1>7. ASSUME NEW b \in Bookings, CancelBooking(b) PROVE CommitmentsKept'
  BY <1>7 DEF CancelBooking, MayCancel, PutKitBack, IsCancellable
<1>8. ASSUME NEW b \in Bookings, PrepareChecklist(b) PROVE CommitmentsKept'
  BY <1>8 DEF PrepareChecklist, MayPrepare
<1>9. ASSUME NEW b \in Bookings, NEW template \in Checklists, StartHandover(b, template)
      PROVE  CommitmentsKept'
  BY <1>9 DEF StartHandover
<1>10. ASSUME NEW b \in Bookings, CompleteHandover(b) PROVE CommitmentsKept'
  BY <1>10 DEF CompleteHandover, HandoverUnblocked
<1>11. ASSUME NEW b \in Bookings, StartReturn(b) PROVE CommitmentsKept'
  BY <1>11 DEF StartReturn, MayStartReturn, ReturnBlockers, CanStartReturn, ReturnStartStatuses
<1>12. ASSUME NEW b \in Bookings, CompleteReturn(b) PROVE CommitmentsKept'
  BY <1>12 DEF CompleteReturn, ReturnBlockers
<1>13. ASSUME NEW k \in Kits, NEW s \in KitStatuses, UpdateKit(k, s) PROVE CommitmentsKept'
  <2>1. HasLiveBooking(k) => s # "RETIRED" \/ kitStatus[k] = "RETIRED"
    BY <1>13 DEF UpdateKit, AllowedKitStatusTransitions, WorkflowStatuses, ManualStatuses
  <2> QED
    BY <1>13, <2>1 DEF UpdateKit, HasLiveBooking, Live, HoldingStatuses
<1>14. ASSUME NEW k \in Kits, RemoveKit(k) PROVE CommitmentsKept'
  BY <1>14 DEF RemoveKit, KitRemovalUnblocked, HasLiveBooking, Live, HoldingStatuses
<1>15. ASSUME NEW k \in Kits, AddKitAsset(k) PROVE CommitmentsKept'
  BY <1>15 DEF AddKitAsset, KitAcceptsMembers
<1>16. ASSUME NEW k \in Kits, RemoveKitAsset(k) PROVE CommitmentsKept'
  BY <1>16 DEF RemoveKitAsset
<1>17. ASSUME NEW k \in Kits, EquipmentChanges(k) PROVE CommitmentsKept'
  BY <1>17 DEF EquipmentChanges
<1>17a. ASSUME NEW k \in Kits, NEW b \in Bookings, UpdateKitAsset(k, b) PROVE CommitmentsKept'
  BY <1>17a DEF UpdateKitAsset
<1>18. ASSUME NEW e \in Editors, SetEditorActive(e) PROVE CommitmentsKept'
  BY <1>18 DEF SetEditorActive, Live, HoldingStatuses
<1>19. CASE UNCHANGED vars
  BY <1>19 DEF vars
<1> QED
  BY <1>1, <1>2, <1>3, <1>4, <1>5, <1>6, <1>7, <1>8, <1>9, <1>10, <1>11, <1>12,
     <1>13, <1>14, <1>15, <1>16, <1>17, <1>17a, <1>18, <1>19 DEF Next, BookingStep, KitStep

\* From ready to returned, the kit stays in service and the profile active.
THEOREM CommitmentsHold == Spec => []CommitmentsKept
<1>1. Init => CommitmentsInv
  BY DEF Init, CommitmentsInv, CommitmentsKept, IsOut, TypeOK,
         BookingStatuses, DocPhases, KitStatuses, KitContents, Checklists
<1> QED
  BY <1>1, CommitmentsInductive, PTL DEF Spec, CommitmentsInv

\* No blocker of the return ever stands in the way of a kit that is out: its
\* handover is complete and its kit was not removed.
THEOREM OutCanComeBack == Spec => []ReturnNeverBlocked
<1>1. DocumentsMatchStatus /\ CommitmentsKept => ReturnNeverBlocked
  BY DEF DocumentsMatchStatus, CommitmentsKept, ReturnNeverBlocked, ReturnBlockers,
         KitInService, IsOut, CanStartReturn, ReturnStartStatuses
<1> QED
  BY <1>1, DocumentsAgree, CommitmentsHold, PTL

EquipmentInv == TypeOK /\ OutKitKeepsEquipment

\* Members leave a kit only when no booking of it is ready or out, and a
\* handover is not completed for a kit without equipment.
LEMMA EquipmentInductive == EquipmentInv /\ [Next]_vars => EquipmentInv'
<1> SUFFICES ASSUME EquipmentInv, [Next]_vars PROVE OutKitKeepsEquipment'
  BY TypeStep DEF EquipmentInv
<1> USE DEF EquipmentInv, OutKitKeepsEquipment
<1>1. ASSUME NEW b \in Bookings, CompleteHandover(b) PROVE OutKitKeepsEquipment'
  BY <1>1 DEF CompleteHandover, HandoverUnblocked, Reassessed, TypeOK, IsOut, termsVars
<1>2. ASSUME NEW b \in Bookings, StartReturn(b) PROVE OutKitKeepsEquipment'
  BY <1>2 DEF StartReturn, MayStartReturn, ReturnBlockers, CanStartReturn, ReturnStartStatuses, TypeOK,
              IsOut, termsVars, kitVars
<1>3. ASSUME NEW b \in Bookings, CompleteReturn(b) PROVE OutKitKeepsEquipment'
  BY <1>3 DEF CompleteReturn, ReturnBlockers, Reassessed, TypeOK, IsOut, termsVars
<1>4. ASSUME NEW k \in Kits, AddKitAsset(k) PROVE OutKitKeepsEquipment'
  BY <1>4 DEF AddKitAsset, KitAcceptsMembers, TypeOK, IsOut, bookingVars
<1>5. ASSUME NEW k \in Kits, RemoveKitAsset(k) PROVE OutKitKeepsEquipment'
  BY <1>5 DEF RemoveKitAsset, ContentsLocked, TypeOK, IsOut, bookingVars
<1>6. ASSUME NEW k \in Kits, EquipmentChanges(k) PROVE OutKitKeepsEquipment'
  BY <1>6 DEF EquipmentChanges, TypeOK, IsOut, bookingVars
<1>6a. ASSUME NEW k \in Kits, NEW b \in Bookings, UpdateKitAsset(k, b) PROVE OutKitKeepsEquipment'
  BY <1>6a DEF UpdateKitAsset, TypeOK, IsOut, termsVars
<1>7. CASE ~CustodyStep /\ contents' = contents
  BY <1>7, OtherSteps DEF CustodyUnchanged, EquipmentInv
<1> QED
  BY <1>1, <1>2, <1>3, <1>4, <1>5, <1>6, <1>6a, <1>7
     DEF Next, BookingStep, KitStep, CustodyStep, vars, kitVars, CreateBooking, UpdateBooking,
         ReserveBooking, ReturnToDraft, MarkReadyForHandover, RevertReadyForHandover,
         CancelBooking, PrepareChecklist, StartHandover, UpdateKit, RemoveKit, SetEditorActive

\* A kit that is out is never emptied of its equipment.
THEOREM EquipmentStays == Spec => []OutKitKeepsEquipment
<1>1. Init => EquipmentInv
  BY DEF Init, EquipmentInv, OutKitKeepsEquipment, IsOut, TypeOK,
         BookingStatuses, DocPhases, KitStatuses, KitContents, Checklists
<1> QED
  BY <1>1, EquipmentInductive, PTL DEF Spec, EquipmentInv

-----------------------------------------------------------------------------
(* The calendar *)

\* Two windows collide whichever comes first.
LEMMA OverlapSymmetric ==
    ASSUME NEW v, NEW w
    PROVE  RangesOverlap(v.start, v.end, w.start, w.end)
               <=> RangesOverlap(w.start, w.end, v.start, v.end)
BY DEF RangesOverlap

HoldsInv == TypeOK /\ NoOverlappingHolds

(***************************************************************************)
(* A step that begins to hold a window for b, or moves what b holds, finds *)
(* the window free of every other booking; no step touches two bookings.   *)
(***************************************************************************)
LEMMA HoldChecked ==
    ASSUME NoOverlappingHolds, TypeOK, NEW b \in Bookings,
           \A c \in Bookings \ {b} :
               status'[c] = status[c] /\ kitOf'[c] = kitOf[c] /\ window'[c] = window[c],
           Live(b)' => WindowFree(b, kitOf'[b], window'[b])
    PROVE  NoOverlappingHolds'
<1> SUFFICES ASSUME NEW c \in Bookings, NEW d \in Bookings,
                    c # d, Live(c)', Live(d)', kitOf'[c] = kitOf'[d]
             PROVE  ~RangesOverlap(window'[c].start, window'[c].end,
                                   window'[d].start, window'[d].end)
  BY DEF NoOverlappingHolds
<1>1. CASE c = b
  <2>1. Live(d) /\ kitOf[d] = kitOf'[b] /\ window'[d] = window[d]
    BY <1>1 DEF Live
  <2>2. ~RangesOverlap(window'[d].start, window'[d].end, window'[c].start, window'[c].end)
    BY <1>1, <2>1 DEF WindowFree
  <2> QED
    BY <2>2, OverlapSymmetric
<1>2. CASE d = b
  <2>1. Live(c) /\ kitOf[c] = kitOf'[b] /\ window'[c] = window[c]
    BY <1>2 DEF Live
  <2> QED
    BY <1>2, <2>1 DEF WindowFree
<1>3. CASE c # b /\ d # b
  BY <1>3 DEF NoOverlappingHolds, Live
<1> QED
  BY <1>1, <1>2, <1>3

\* A step of a booking that goes on holding what it held finds it free.
LEMMA HeldIsFree ==
    ASSUME NoOverlappingHolds, NEW b \in Bookings, Live(b)
    PROVE  WindowFree(b, kitOf[b], window[b])
BY OverlapSymmetric DEF NoOverlappingHolds, WindowFree, Live

LEMMA HoldsInductive == HoldsInv /\ [Next]_vars => HoldsInv'
<1> SUFFICES ASSUME HoldsInv, [Next]_vars PROVE NoOverlappingHolds'
  BY TypeStep DEF HoldsInv
<1>0. NoOverlappingHolds /\ TypeOK
  BY DEF HoldsInv
<1> USE DEF termsVars, bookingVars, docVars, CanTransition, ManualTransitions
<1>1. ASSUME NEW b \in Bookings, NEW k \in Kits, NEW w \in Windows,
             NEW e \in Editors \cup {NoEditor}, NEW reserve \in BOOLEAN,
             CreateBooking(b, k, w, e, reserve)
      PROVE  NoOverlappingHolds'
  <2>1. Live(b)' => WindowFree(b, kitOf'[b], window'[b])
    BY <1>0, <1>1 DEF CreateBooking, MayCreate, Reservable, TypeOK, Live, HoldingStatuses
  <2> QED
    BY <1>0, <1>1, <2>1, HoldChecked DEF CreateBooking, MayCreate, TypeOK
<1>2. ASSUME NEW b \in Bookings, NEW k \in Kits, NEW w \in Windows,
             NEW e \in Editors \cup {NoEditor}, UpdateBooking(b, k, w, e)
      PROVE  NoOverlappingHolds'
  <2>1. kitOf'[b] = k /\ window'[b] = w /\ status' = status
    BY <1>0, <1>2 DEF UpdateBooking, TypeOK
  <2>2. Live(b) => WindowFree(b, k, w)
    <3>1. CASE k = kitOf[b] /\ w = window[b]
      BY <1>0, <3>1, HeldIsFree
    <3>2. CASE <<k, w>> # <<kitOf[b], window[b]>>
      BY <1>2, <3>2 DEF UpdateBooking, Reservable
    <3> QED
      BY <3>1, <3>2
  <2>3. Live(b)' <=> Live(b)
    BY <2>1 DEF Live
  <2> QED
    BY <1>0, <1>2, <2>1, <2>2, <2>3, HoldChecked DEF UpdateBooking, TypeOK
<1>3. ASSUME NEW b \in Bookings, ReserveBooking(b) PROVE NoOverlappingHolds'
  BY <1>0, <1>3, HoldChecked DEF ReserveBooking, Reservable, TypeOK
<1>4. ASSUME NEW b \in Bookings, RevertReadyForHandover(b) PROVE NoOverlappingHolds'
  BY <1>0, <1>4, HoldChecked DEF RevertReadyForHandover, MayRevert, TypeOK
<1>5. ASSUME NEW b \in Bookings, NEW template \in Checklists, MarkReadyForHandover(b, template)
      PROVE  NoOverlappingHolds'
  BY <1>0, <1>5, HoldChecked DEF MarkReadyForHandover, MayMarkReady, Reservable, TypeOK
<1>6. ASSUME NEW b \in Bookings, ReturnToDraft(b) PROVE NoOverlappingHolds'
  <2>1. ~Live(b)'
    BY <1>0, <1>6 DEF ReturnToDraft, MayReturnToDraft, TypeOK, Live, HoldingStatuses
  <2> QED
    BY <1>0, <1>6, <2>1, HoldChecked DEF ReturnToDraft, MayReturnToDraft, TypeOK
<1>7. ASSUME NEW b \in Bookings, CancelBooking(b) PROVE NoOverlappingHolds'
  <2>1. ~Live(b)'
    BY <1>0, <1>7 DEF CancelBooking, MayCancel, TypeOK, Live, HoldingStatuses
  <2> QED
    BY <1>0, <1>7, <2>1, HoldChecked DEF CancelBooking, MayCancel, TypeOK
<1>8. ASSUME NEW b \in Bookings, CompleteHandover(b) PROVE NoOverlappingHolds'
  <2>1. Live(b)
    BY <1>8 DEF CompleteHandover, HandoverUnblocked, Live, HoldingStatuses
  <2>2. WindowFree(b, kitOf[b], window[b])
    BY <1>0, <2>1, HeldIsFree
  <2> QED
    BY <1>0, <1>8, <2>2, HoldChecked DEF CompleteHandover, TypeOK
<1>9. ASSUME NEW b \in Bookings, StartReturn(b) PROVE NoOverlappingHolds'
  <2>1. Live(b)
    BY <1>9 DEF StartReturn, MayStartReturn, ReturnBlockers, CanStartReturn, ReturnStartStatuses, Live, HoldingStatuses
  <2>2. WindowFree(b, kitOf[b], window[b])
    BY <1>0, <2>1, HeldIsFree
  <2> QED
    BY <1>0, <1>9, <2>2, HoldChecked DEF StartReturn, MayStartReturn, TypeOK
<1>10. ASSUME NEW b \in Bookings, CompleteReturn(b) PROVE NoOverlappingHolds'
  <2>1. ~Live(b)'
    BY <1>0, <1>10 DEF CompleteReturn, TypeOK, Live, HoldingStatuses
  <2> QED
    BY <1>0, <1>10, <2>1, HoldChecked DEF CompleteReturn, TypeOK
<1>11. CASE UNCHANGED <<status, kitOf, window>>
  BY <1>0, <1>11 DEF NoOverlappingHolds, Live
<1> QED
  BY <1>1, <1>2, <1>3, <1>4, <1>5, <1>6, <1>7, <1>8, <1>9, <1>10, <1>11
     DEF Next, BookingStep, KitStep, vars, PrepareChecklist, StartHandover, UpdateKit,
         RemoveKit, AddKitAsset, RemoveKitAsset, EquipmentChanges, UpdateKitAsset, SetEditorActive

\* No kit is ever promised twice for an instant.
THEOREM KitsAreNotDoubleBooked == Spec => []NoOverlappingHolds
<1>1. Init => HoldsInv
  BY DEF Init, HoldsInv, NoOverlappingHolds, Live, HoldingStatuses, TypeOK,
         BookingStatuses, DocPhases, KitStatuses, KitContents, Checklists
<1> QED
  BY <1>1, HoldsInductive, PTL DEF Spec, HoldsInv

-----------------------------------------------------------------------------
(* Pages *)

\* The rows of the bookings table.
Existing == {b \in Bookings : status[b] # "ABSENT"}

FewInv == TypeOK /\ IsFiniteSet(Existing)

\* A step makes one booking at most.
LEMMA FewInductive == FewInv /\ [Next]_vars => FewInv'
<1> SUFFICES ASSUME FewInv, [Next]_vars PROVE IsFiniteSet(Existing)'
  BY TypeStep DEF FewInv
<1>0. TypeOK /\ IsFiniteSet(Existing)
  BY DEF FewInv
<1>1. ASSUME NEW b \in Bookings, BookingStep(b) PROVE Existing' \subseteq Existing \cup {b}
  <2>1. \A c \in Bookings \ {b} : status'[c] = status[c]
    BY <1>0, <1>1 DEF BookingStep, CreateBooking, UpdateBooking, ReserveBooking, ReturnToDraft,
       MarkReadyForHandover, RevertReadyForHandover, CancelBooking, PrepareChecklist,
       StartHandover, CompleteHandover, StartReturn, CompleteReturn, TypeOK
  <2> QED
    BY <2>1 DEF Existing
<1>2. CASE UNCHANGED status
  BY <1>0, <1>2 DEF Existing
<1>3. ASSUME NEW b \in Bookings, BookingStep(b) PROVE IsFiniteSet(Existing)'
  <2>1. IsFiniteSet(Existing \cup {b})
    BY <1>0, FS_AddElement
  <2> QED
    BY <1>3, <1>1, <2>1, FS_Subset
<1>4. ASSUME NEW k \in Kits, KitStep(k) PROVE UNCHANGED status
  BY <1>4 DEF KitStep, UpdateKit, RemoveKit, AddKitAsset, RemoveKitAsset, EquipmentChanges,
     UpdateKitAsset, bookingVars
<1> QED
  BY <1>2, <1>3, <1>4 DEF Next, SetEditorActive, bookingVars, vars

LEMMA LeastNumber ==
    ASSUME NEW T, T \subseteq Nat, T # {}
    PROVE  \E x \in T : \A y \in T : x =< y
<1>1. PICK x \in T : \A y \in T : ~(<<y, x>> \in OpToRel(<, Nat))
  BY NatLessThanWellFounded, WFMin
<1>2. \A y \in T : ~(y < x)
  BY <1>1 DEF OpToRel
<1> QED
  BY <1>2

LiveOn(k) == {b \in Bookings : Live(b) /\ kitOf[b] = k}
Before(k, b) == {c \in LiveOn(k) : window[c].start < window[b].start}

LEMMA StartsAreInstants ==
    ASSUME TypeOK, NEW k, NEW b \in LiveOn(k)
    PROVE  window[b].start \in Int
<1>1. window[b] \in Windows
  BY DEF LiveOn, Live, HoldingStatuses, TypeOK
<1> QED
  BY <1>1

\* A kit with live bookings has one that starts first: the one with the fewest
\* before it.
LEMMA SomeoneIsFirst ==
    ASSUME FewInv, NEW k, LiveOn(k) # {}
    PROVE  CurrentBooking(k) # {}
<1> DEFINE Counts == {Cardinality(Before(k, b)) : b \in LiveOn(k)}
<1>0. TypeOK /\ IsFiniteSet(LiveOn(k))
  <2>1. LiveOn(k) \subseteq Existing
    BY DEF LiveOn, Existing, Live, HoldingStatuses
  <2> QED
    BY <2>1, FS_Subset DEF FewInv
<1>1. \A b \in LiveOn(k) : IsFiniteSet(Before(k, b)) /\ Cardinality(Before(k, b)) \in Nat
  <2> SUFFICES ASSUME NEW b \in LiveOn(k)
               PROVE  IsFiniteSet(Before(k, b)) /\ Cardinality(Before(k, b)) \in Nat
    OBVIOUS
  <2>1. Before(k, b) \subseteq LiveOn(k)
    BY DEF Before
  <2> QED
    BY <1>0, <2>1, FS_Subset, FS_CardinalityType
<1>2. PICK b \in LiveOn(k) :
        \A c \in LiveOn(k) : Cardinality(Before(k, b)) =< Cardinality(Before(k, c))
  <2>1. Counts \subseteq Nat /\ Counts # {}
    BY <1>1
  <2>2. PICK n \in Counts : \A m \in Counts : n =< m
    <3> HIDE DEF Counts
    <3> QED
      BY <2>1, LeastNumber
  <2> QED
    BY <2>2
<1>3. ASSUME NEW c \in LiveOn(k) PROVE window[b].start =< window[c].start
  <2>1. window[b].start \in Int /\ window[c].start \in Int
    BY <1>0, StartsAreInstants
  <2> SUFFICES ASSUME window[c].start < window[b].start PROVE FALSE
    BY <2>1
  <2>2. Before(k, c) \subseteq Before(k, b)
    <3> SUFFICES ASSUME NEW d \in Before(k, c) PROVE d \in Before(k, b)
      OBVIOUS
    <3>1. d \in LiveOn(k) /\ window[d].start < window[c].start
      BY DEF Before
    <3>2. window[d].start \in Int
      BY <1>0, <3>1, StartsAreInstants
    <3> QED
      BY <2>1, <3>1, <3>2 DEF Before
  <2>3. c \in Before(k, b) /\ c \notin Before(k, c)
    BY <2>1 DEF Before
  <2>4. Cardinality(Before(k, c)) < Cardinality(Before(k, b))
    BY <1>1, <2>2, <2>3, FS_Subset
  <2> QED
    BY <1>1, <1>2, <2>4
<1> QED
  BY <1>2, <1>3 DEF CurrentBooking, LiveOn

PagesInv == /\ FewInv /\ NoOverlappingHolds /\ CheckedOutExactlyWhileOut
            /\ DocumentsMatchStatus /\ ReturnNeverBlocked

\* What is out has a return to start or to go on with.
LEMMA WhatIsOutCanGoOn ==
    ASSUME PagesInv, NEW b \in Bookings, IsOut(b)
    PROVE  ReturnCanGoOn(b)
<1>1. /\ returnDoc[b] \in DocPhases /\ ReturnBlockers(b, status[b] = "RETURN_INSPECTION") = {}
      /\ returnDoc[b] = "IN_PROGRESS" <=> status[b] = "RETURN_INSPECTION"
      /\ returnDoc[b] # "COMPLETED"
  BY DEF PagesInv, FewInv, TypeOK, DocumentsMatchStatus, ReturnNeverBlocked, IsOut
<1>2. CASE status[b] = "RETURN_INSPECTION"
  BY <1>1, <1>2 DEF ReturnCanGoOn
<1>3. CASE status[b] # "RETURN_INSPECTION"
  <2>1. (status[b] = "RETURN_INSPECTION") = FALSE
    BY <1>3
  <2> QED
    BY <1>1, <1>3, <2>1 DEF ReturnCanGoOn, MayStartReturn, DocPhases
<1> QED
  BY <1>2, <1>3

\* A reservation goes back or on, and a kit set aside goes back: their window is
\* their own.
LEMMA WhatIsHeldCanMove ==
    ASSUME PagesInv, NEW b \in Bookings
    PROVE  /\ status[b] = "READY_FOR_HANDOVER" => MayRevert(b)
           /\ status[b] = "RESERVED" => Accepted(b, "ready")
<1>1. Live(b) => WindowFree(b, kitOf[b], window[b])
  BY HeldIsFree DEF PagesInv
<1>2. Accepted(b, "ready") <=>
        (ShownFitForHandover(b) /\ checklist[b] # "none"
            => \A template \in Checklists : MayMarkReady(b, template))
  BY DEF Accepted
<1> QED
  BY <1>1, <1>2 DEF Live, HoldingStatuses, MayRevert, MayMarkReady, CopiedChecklist, ShownFitForHandover, Reservable,
     CanTransition, ManualTransitions

LEMMA BookingPageKeepsItsWord == PagesInv => BookingOffersAreAccepted
<1> SUFFICES ASSUME PagesInv, NEW b \in Bookings, status[b] # "ABSENT", NEW role \in Roles,
                    NEW step \in BookingOffers(b, role)
             PROVE  Accepted(b, step)
  BY DEF BookingOffersAreAccepted
<1>1. CASE step = "draft"
  <2>1. status[b] = "RESERVED"
    BY <1>1 DEF BookingOffers, Offer
  <2> QED
    BY <1>1, <2>1 DEF Accepted, MayReturnToDraft, CanTransition, ManualTransitions
<1>2. CASE step = "revert"
  <2>1. status[b] = "READY_FOR_HANDOVER"
    BY <1>2 DEF BookingOffers, Offer
  <2> QED
    BY <1>2, <2>1, WhatIsHeldCanMove DEF Accepted
<1>3. CASE step = "cancel"
  <2>1. IsCancellable(status[b])
    BY <1>3 DEF BookingOffers, Offer
  <2> QED
    BY <1>3, <2>1 DEF Accepted, MayCancel
<1>4. CASE step = "prepare"
  <2>1. handoverDoc[b] = "NONE" /\ status[b] \in {"DRAFT", "RESERVED", "READY_FOR_HANDOVER"}
    BY <1>4 DEF BookingOffers, Offer
  <2> QED
    BY <1>4, <2>1 DEF Accepted, MayPrepare
<1>5. CASE step = "return"
  <2>1. CanStartReturn(status[b]) \/ status[b] = "RETURN_INSPECTION"
    BY <1>5 DEF BookingOffers, Offer
  <2>2. IsOut(b)
    BY <2>1 DEF CanStartReturn, ReturnStartStatuses, IsOut
  <2> QED
    BY <1>5, <2>2, WhatIsOutCanGoOn DEF Accepted
<1>6. CASE step = "ready"
  <2>1. status[b] = "RESERVED"
    BY <1>6 DEF BookingOffers, Offer
  <2> QED
    BY <1>6, <2>1, WhatIsHeldCanMove
<1>7. CASE step \notin {"draft", "revert", "cancel", "prepare", "return", "ready"}
  BY <1>7 DEF Accepted
<1> QED
  BY <1>1, <1>2, <1>3, <1>4, <1>5, <1>6, <1>7

\* A kit without a current booking is free for every window.
LEMMA FreeKitCanBeBooked ==
    ASSUME PagesInv, NEW k \in Kits, CurrentBooking(k) = {}, NEW now, KitAvailable(k, now),
           NEW b \in Bookings, status[b] = "ABSENT", NEW w \in Windows,
           NEW e \in activeEditors \cup {NoEditor}
    PROVE  MayCreate(b, k, w, e, TRUE)
<1>1. LiveOn(k) = {}
  BY SomeoneIsFirst DEF PagesInv
<1>2. WindowFree(b, k, w)
  BY <1>1 DEF LiveOn, WindowFree
<1> QED
  BY <1>2 DEF MayCreate, KitAvailable, KitInService, KitReady, Reservable, EditorBookable

LEMMA OperationsAreAccepted ==
    ASSUME PagesInv, NEW k \in Kits, NEW role \in Roles, NEW now \in Instants,
           NEW offer \in KitOperations(k, role, now)
    PROVE  KitOfferAccepted(offer[1], offer[2], k)
<1>1. CASE CurrentBooking(k) # {}
  <2>1. PICK b \in CurrentBooking(k) :
          \/ offer = <<"handover", b>> /\ status[b] = "READY_FOR_HANDOVER"
          \/ offer = <<"return", b>> /\ status[b] \in OutStatuses \cup {"RETURN_INSPECTION"}
    BY <1>1 DEF KitOperations
  <2>2. b \in Bookings
    BY DEF CurrentBooking
  <2>3. CASE offer = <<"handover", b>> /\ status[b] = "READY_FOR_HANDOVER"
    <3>1. "handover" \in BookingOffers(b, "ENGINEER")
      BY <2>3 DEF BookingOffers, Offer, Can, Granted
    <3>2. offer[1] = "handover" /\ offer[2] = b
      BY <2>3
    <3> QED
      BY <3>1, <3>2 DEF KitOfferAccepted
  <2>4. CASE offer = <<"return", b>> /\ status[b] \in OutStatuses \cup {"RETURN_INSPECTION"}
    <3>1. ReturnCanGoOn(b)
      BY <2>2, <2>4, WhatIsOutCanGoOn DEF IsOut, OutStatuses
    <3>2. offer[1] = "return" /\ offer[2] = b
      BY <2>4
    <3> QED
      BY <3>1, <3>2 DEF KitOfferAccepted
  <2> QED
    BY <2>1, <2>3, <2>4
<1>2. CASE CurrentBooking(k) = {}
  <2>1. KitAvailable(k, now)
    BY <1>2 DEF KitOperations
  <2>2. PICK b \in Bookings : offer = <<"book", b>> /\ status[b] = "ABSENT"
    BY <1>2 DEF KitOperations
  <2>3. \A w \in Windows, e \in activeEditors \cup {NoEditor} : MayCreate(b, k, w, e, TRUE)
    BY <1>2, <2>1, <2>2, FreeKitCanBeBooked
  <2>4. offer[1] = "book" /\ offer[2] = b
    BY <2>2
  <2> QED
    BY <2>3, <2>4 DEF KitOfferAccepted
<1> QED
  BY <1>1, <1>2

LEMMA KitPageKeepsItsWord == PagesInv => KitOffersAreAccepted
<1> SUFFICES ASSUME PagesInv, NEW k \in Kits, NEW role \in Roles
             PROVE  /\ \A now \in Instants : \A offer \in KitOperations(k, role, now) :
                         KitOfferAccepted(offer[1], offer[2], k)
                    /\ RemovalOffered(k, role) => KitRemovalUnblocked(k)
                    /\ AddingOffered(k, role) => KitAcceptsMembers(k)
                    /\ SelectOffered(k, role) =>
                         \A b \in Bookings, w \in Windows :
                            status[b] = "ABSENT" /\ WindowFree(b, k, w)
                               => MayCreate(b, k, w, NoEditor, TRUE)
  BY DEF KitOffersAreAccepted
<1>1. \A now \in Instants : \A offer \in KitOperations(k, role, now) :
         KitOfferAccepted(offer[1], offer[2], k)
  BY OperationsAreAccepted
<1>2. RemovalOffered(k, role) => KitRemovalUnblocked(k)
  BY DEF RemovalOffered, KitRemovalUnblocked
<1>3. AddingOffered(k, role) => KitAcceptsMembers(k)
  BY DEF AddingOffered, KitAcceptsMembers
<1>4. SelectOffered(k, role) =>
         \A b \in Bookings, w \in Windows :
            status[b] = "ABSENT" /\ WindowFree(b, k, w) => MayCreate(b, k, w, NoEditor, TRUE)
  BY DEF SelectOffered, MayCreate, KitInService, Reservable, EditorBookable
<1> QED
  BY <1>1, <1>2, <1>3, <1>4

LEMMA KitStateIsTrue ==
    ASSUME PagesInv, NEW k \in Kits, NEW now \in Instants
    PROVE  /\ KitState(k, now) = "out" <=> \E b \in Bookings : IsOut(b) /\ kitOf[b] = k
           /\ KitState(k, now) = "ready" =>
                \A b \in Bookings : Live(b) /\ kitOf[b] = k => window[b].start > now
<1>1. kitStatus[k] = "CHECKED_OUT" <=> \E b \in Bookings : IsOut(b) /\ kitOf[b] = k
  BY DEF PagesInv, CheckedOutExactlyWhileOut
<1>2. \A b \in Holders(k, now) : b \in Bookings /\ kitOf[b] = k
  BY DEF Holders, CurrentBooking
<1>3. KitAvailable(k, now) => kitStatus[k] # "CHECKED_OUT"
  BY DEF KitAvailable
<1>4. KitState(k, now) = "out" <=> \E b \in Bookings : IsOut(b) /\ kitOf[b] = k
  BY <1>1, <1>2, <1>3 DEF KitState
<1>5. ASSUME KitState(k, now) = "ready", NEW b \in Bookings, Live(b), kitOf[b] = k
      PROVE  window[b].start > now
  <2>1. Holders(k, now) = {}
    BY <1>5 DEF KitState, KitAvailable
  <2>2. b \in LiveOn(k)
    BY <1>5 DEF LiveOn
  <2>3. PICK c \in CurrentBooking(k) : TRUE
    BY <2>2, SomeoneIsFirst DEF PagesInv
  <2>4. ~(window[c].start =< now)
    BY <2>1, <2>3 DEF Holders, HoldsKitNow
  <2>5. c \in LiveOn(k) /\ window[c].start =< window[b].start
    BY <2>3, <1>5 DEF CurrentBooking, LiveOn
  <2>6. window[b].start \in Int /\ window[c].start \in Int
    BY <2>2, <2>5, StartsAreInstants DEF PagesInv, FewInv
  <2>7. now \in Int
    BY DEF Instants
  <2> QED
    BY <2>4, <2>5, <2>6, <2>7
<1> QED
  BY <1>4, <1>5

LEMMA NobodyIsStuck == PagesInv => NoDeadEnd
<1> SUFFICES ASSUME PagesInv, NEW b \in Bookings,
                    status[b] \in BookingStatuses \ {"COMPLETED", "CANCELLED"}
             PROVE  \E step \in BookingOffers(b, "ENGINEER") \cap {"draft", "revert", "cancel", "return"} :
                       Accepted(b, step)
  BY DEF NoDeadEnd
<1> DEFINE Way(step) == step \in BookingOffers(b, "ENGINEER") /\ Accepted(b, step)
<1>1. CASE status[b] \in {"DRAFT", "RESERVED", "READY_FOR_HANDOVER"}
  <2>1. IsCancellable(status[b])
    BY <1>1 DEF IsCancellable, CanTransition, ManualTransitions
  <2>2. "cancel" \in BookingOffers(b, "ENGINEER")
    BY <2>1 DEF BookingOffers, Offer, Can, Granted
  <2>3. Accepted(b, "cancel")
    BY <2>1 DEF Accepted, MayCancel
  <2> QED
    BY <2>2, <2>3
<1>2. CASE IsOut(b)
  <2>1. CanStartReturn(status[b]) \/ status[b] = "RETURN_INSPECTION"
    BY <1>2 DEF IsOut, CanStartReturn, ReturnStartStatuses
  <2>2. handoverDoc[b] = "COMPLETED"
    BY <1>2 DEF PagesInv, DocumentsMatchStatus
  <2>3. "return" \in BookingOffers(b, "ENGINEER")
    BY <2>1, <2>2 DEF BookingOffers, Offer, Can, Granted
  <2>4. Accepted(b, "return")
    BY <1>2, WhatIsOutCanGoOn DEF Accepted
  <2> QED
    BY <2>3, <2>4
<1> QED
  BY <1>1, <1>2 DEF BookingStatuses, IsOut

(***************************************************************************)
(* What the booking page and the kit page offer is accepted when it is     *)
(* taken up at once, a kit's state on them is true, and no unfinished      *)
(* booking is without a way on.                                            *)
(***************************************************************************)
THEOREM PagesAreTrue == Spec => []PagesKeepTheirWord
<1>1. Init => FewInv
  <2> SUFFICES ASSUME Init PROVE FewInv
    OBVIOUS
  <2>1. TypeOK
    BY DEF Init, TypeOK, BookingStatuses, DocPhases, KitStatuses, KitContents, Checklists
  <2>2. Existing = {}
    BY DEF Init, Existing
  <2> QED
    BY <2>1, <2>2, FS_EmptySet DEF FewInv
<1>2. Spec => []FewInv
  BY <1>1, FewInductive, PTL DEF Spec
<1>3. PagesInv => PagesKeepTheirWord
  <2> SUFFICES ASSUME PagesInv PROVE PagesKeepTheirWord
    OBVIOUS
  <2>1. StatesAreTrue
    BY KitStateIsTrue DEF StatesAreTrue
  <2> QED
    BY <2>1, BookingPageKeepsItsWord, KitPageKeepsItsWord, NobodyIsStuck DEF PagesKeepTheirWord
<1> QED
  BY <1>2, <1>3, KitsAreNotDoubleBooked, LabelTellsCustody, DocumentsAgree, OutCanComeBack, PTL
     DEF PagesInv

-----------------------------------------------------------------------------
(* Refinement *)

LEMMA CustodyInitialRefines == Init => Custody!Init
BY DEF Init, Custody!Init, IsOut

(***************************************************************************)
(* A completed handover takes the kit out, a completed return brings it    *)
(* back, and every other step is a stutter of the custody specification.   *)
(***************************************************************************)
LEMMA CustodyStepRefines == CustodyInv /\ [Next]_vars => [Custody!Next]_(Custody!custodyVars)
<1> SUFFICES ASSUME CustodyInv, [Next]_vars PROVE [Custody!Next]_(Custody!custodyVars)
  OBVIOUS
<1> DEFINE Out == {<<kitOf[b], b>> : b \in {c \in Bookings : IsOut(c)}}
           Labelled == {k \in Kits : kitStatus[k] = "CHECKED_OUT"}
           Returned == {b \in Bookings : status[b] = "COMPLETED"}
<1>0. TypeOK /\ OneBookingOutPerKit /\ CheckedOutExactlyWhileOut
  BY DEF CustodyInv
<1>1. ASSUME NEW b \in Bookings, CompleteHandover(b) PROVE Custody!TakeOut(kitOf[b], b)
  <2>1. kitOf[b] \in Kits /\ kitOf' = kitOf /\ ~IsOut(b) /\ status[b] = "READY_FOR_HANDOVER"
    BY <1>0, <1>1 DEF CompleteHandover, HandoverUnblocked, TypeOK, IsOut, termsVars
  <2>2. \A c \in Bookings : <<kitOf[b], c>> \notin Out
    BY <1>0, <1>1, <2>1 DEF CompleteHandover, HandoverUnblocked, CheckedOutExactlyWhileOut
  <2>3. \A j \in Kits : <<j, b>> \notin Out
    BY <2>1
  <2>4. b \notin Returned /\ Returned' = Returned
    BY <1>0, <1>1, <2>1 DEF CompleteHandover, TypeOK
  <2>5. \A c \in Bookings : IsOut(c)' <=> IsOut(c) \/ c = b
    BY <1>0, <1>1 DEF CompleteHandover, TypeOK, IsOut
  <2>6. Out' = Out \cup {<<kitOf[b], b>>}
    BY <2>1, <2>5
  <2>7. Labelled' = Labelled \cup {kitOf[b]}
    BY <1>0, <1>1, <2>1 DEF CompleteHandover, TypeOK
  <2> QED
    BY <2>2, <2>3, <2>4, <2>6, <2>7 DEF Custody!TakeOut
<1>2. ASSUME NEW b \in Bookings, CompleteReturn(b) PROVE Custody!BringBack(kitOf[b], b)
  <2>1. kitOf[b] \in Kits /\ kitOf' = kitOf /\ IsOut(b)
    BY <1>0, <1>2 DEF CompleteReturn, ReturnBlockers, TypeOK, IsOut, termsVars
  <2>2. \A c \in Bookings : IsOut(c)' <=> IsOut(c) /\ c # b
    BY <1>0, <1>2 DEF CompleteReturn, TypeOK, IsOut
  <2>3. <<kitOf[b], b>> \in Out /\ Out' = Out \ {<<kitOf[b], b>>}
    BY <2>1, <2>2
  <2>4. Labelled' = Labelled \ {kitOf[b]}
    BY <1>0, <1>2, <2>1 DEF CompleteReturn, TypeOK
  <2>5. Returned' = Returned \cup {b}
    BY <1>0, <1>2 DEF CompleteReturn, TypeOK
  <2> QED
    BY <2>3, <2>4, <2>5 DEF Custody!BringBack
<1>3. ASSUME NEW b \in Bookings, StartReturn(b) PROVE UNCHANGED Custody!custodyVars
  <2>1. kitOf' = kitOf /\ kitStatus' = kitStatus
    BY <1>3 DEF StartReturn, MayStartReturn, termsVars, kitVars
  <2>2. \A c \in Bookings : (IsOut(c)' <=> IsOut(c)) /\ (status'[c] = "COMPLETED" <=> status[c] = "COMPLETED")
    BY <1>0, <1>3 DEF StartReturn, MayStartReturn, ReturnBlockers, CanStartReturn, ReturnStartStatuses, TypeOK, IsOut
  <2>3. Out' = Out /\ Labelled' = Labelled /\ Returned' = Returned
    BY <2>1, <2>2
  <2> QED
    BY <2>3 DEF Custody!custodyVars
<1>4. CASE ~CustodyStep
  <2>1. CustodyUnchanged
    BY <1>0, <1>4, OtherSteps
  <2>2. Out' = Out
    BY <2>1 DEF CustodyUnchanged
  <2>3. Labelled' = Labelled /\ Returned' = Returned
    BY <2>1 DEF CustodyUnchanged
  <2> QED
    BY <2>2, <2>3 DEF Custody!custodyVars
<1>5. \A b \in Bookings : kitOf[b] \in Kits \/ ~(CompleteHandover(b) \/ CompleteReturn(b))
  BY <1>0 DEF TypeOK, CompleteHandover, HandoverUnblocked, CompleteReturn, ReturnBlockers
<1> QED
  BY <1>1, <1>2, <1>3, <1>4, <1>5 DEF CustodyStep, Custody!Next

\* BookingLifecycle implements KitCustody.
THEOREM LifecycleImplementsCustody == Spec => ImplementsCustody
<1>1. Spec => []CustodyInv
  BY CustodyInitially, CustodyInductive, PTL DEF Spec
<1> QED
  BY <1>1, CustodyInitialRefines, CustodyStepRefines, PTL
     DEF Spec, ImplementsCustody, Custody!Spec
=============================================================================
