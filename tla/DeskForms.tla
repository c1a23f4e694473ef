----------------------------- MODULE DeskForms ------------------------------
(***************************************************************************)
(* The pages on which a handover and a return are taken down: what they    *)
(* show of the document, what is put on them (answers, drawings, a tick),  *)
(* what they post, and what becomes of it.                                 *)
(*                                                                         *)
(* One person's page of one document is followed field by field; other     *)
(* people change the same document through pages of their own meanwhile.   *)
(* A page is what was read when it was last rendered: on opening it, and   *)
(* after each accepted post, when its fields show the record again and     *)
(* only its component state (pads, the tick, "amending") is kept.  After a *)
(* refused save it is opened again.  Everybody who may open these pages    *)
(* may perform and complete (ROLE_PERMISSIONS).  How calls interleave      *)
(* inside the services is Desk's.                                          *)
(***************************************************************************)
EXTENDS Integers, FiniteSets

CONSTANTS Gear,         \* lines of the document
          Attached,     \* the line each accessory belongs to
          Checklist,    \* the booking's checks
          Must,         \* lines and checks that are required
          MaxGestures,  \* bound: things put on the page
          MaxPosts,     \* bound: forms posted
          MaxElsewhere  \* bound: things other people do

Parts == DOMAIN Attached

ASSUME DeskFormsAssumption ==
    /\ Attached \in [Parts -> Gear] /\ Must \subseteq Gear \cup Checklist
    /\ MaxGestures \in Nat /\ MaxPosts \in Nat /\ MaxElsewhere \in Nat

Null   == "null"
Absent == "absent"  \* a control that is not on the page, or posts nothing
Papers == {"HANDOVER", "RETURN"}
Signatories == {"EDITOR", "ENGINEER"}

ItemConditions  == {"INCLUDED", "MISSING", "NOT_APPLICABLE"}
ChecklistAnswers == {"PASS", "FAIL"}

LineFields  == Gear \X {"status", "notes"}
PartFields  == Parts \X {"status", "quantity"}
CheckFields == Checklist \X {"answer", "remark"}
OwnFields   == {<<"document", "suitcaseStatus">>, <<"document", "generalNotes">>}
Fields      == LineFields \cup PartFields \cup CheckFields \cup OwnFields

VARIABLES
    paper,     \* which of the two documents
    went,      \* of a return: the lines and accessories handed over
    world,     \* the booking's status, what blocks it, and the document
    page,      \* the person's page
    result,    \* what the last step came to
    gestures, posts, elsewhere

deskFormVars == <<paper, went, world, page, result, gestures, posts, elsewhere>>

\* say[f]: what the document says; signed[r]: the live signature's image.
NoPad  == [resign |-> FALSE, hasInk |-> FALSE, inked |-> FALSE]
Closed == [open |-> FALSE, read |-> Null, form |-> [f \in Fields |-> Absent], typed |-> {},
           amending |-> FALSE, pad |-> [r \in Signatories |-> NoPad], confirmed |-> FALSE]

Completed(w) ==
    \/ w.state = "COMPLETED"
    \/ IF paper = "HANDOVER" THEN w.status # "READY_FOR_HANDOVER" ELSE w.status = "COMPLETED"

-----------------------------------------------------------------------------
(* The verdicts                                                              *)

WasHandedOver(x) == x \in went

\* verificationVerdict, returnVerdict: what stands in the way, signatures apart.
Unsettled(w) ==
    LET lines == {l \in Gear : IF paper = "HANDOVER"
                               THEN l \in Must /\ w.say[<<l, "status">>] # "INCLUDED"
                               ELSE WasHandedOver(l) /\ w.say[<<l, "status">>] = "NOT_APPLICABLE"}
        checks == {c \in Checklist \cap Must :
                      \/ w.say[<<c, "answer">>] = Null
                      \/ paper = "HANDOVER" /\ w.say[<<c, "answer">>] = "FAIL"}
    IN  lines \cup checks

\* Who has to sign: the person who brings a kit back need not.
MustSign == IF paper = "HANDOVER" THEN Signatories ELSE {"ENGINEER"}

VerdictComplete(w) ==
    /\ Unsettled(w) = {}
    /\ paper = "RETURN" => Gear \cap went # {}
    /\ \A r \in MustSign : w.signed[r] # "none"

\* bookingHandoverBlockers: the editor, the kit, its readiness; bookingReturnBlockers.
BookingBlockers(w) ==
    IF paper = "HANDOVER" THEN {w.obstacle} \ {"none"}
    ELSE IF w.status = (IF w.state = "NONE" THEN "CHECKED_OUT" ELSE "RETURN_INSPECTION")
         THEN {} ELSE {"status"}

-----------------------------------------------------------------------------
(* What a page offers *)

CanPerform(w) == ~Completed(w)

\* (Fault) the verdict alone decides.
CanCompleteByVerdict(w) ==
    ~Completed(w) /\ w.state # "NONE" /\ VerdictComplete(w)

CanComplete(w) ==
    ~Completed(w) /\ BookingBlockers(w) = {} /\ w.state # "NONE" /\ VerdictComplete(w)

StepsShown(w)   == ~Completed(w) /\ w.state # "NONE"
StartOffered(w) == ~Completed(w) /\ w.state = "NONE" /\ CanPerform(w) /\ BookingBlockers(w) = {}
FormsOffered(w) == StepsShown(w) /\ CanPerform(w)

\* The checks of a handover were prepared: their controls open when nothing is
\* answered, or on "Amend answers".
AnyAnswered(w) == \E c \in Checklist : w.say[<<c, "answer">>] # Null
Editing ==
    /\ FormsOffered(page.read)
    /\ paper = "RETURN" \/ page.amending \/ ~AnyAnswered(page.read)

PadOpen(r, p) == FormsOffered(p.read) /\ (p.read.signed[r] = "none" \/ p.pad[r].resign)

\* The controls of the equipment form that can be set.  On a return, what never
\* went out is listed only, its answer posted from a hidden field, its
\* accessories not at all.
EquipmentControls ==
    IF paper = "HANDOVER" THEN LineFields \cup PartFields \cup OwnFields
    ELSE {f \in LineFields : WasHandedOver(f[1])}
         \cup {f \in PartFields : WasHandedOver(Attached[f[1]])} \cup OwnFields

Controls ==
    (IF FormsOffered(page.read) THEN EquipmentControls ELSE {})
    \cup (IF Editing THEN CheckFields ELSE {})

\* defaultValue: a quantity nobody has entered shows as the expected one at a
\* handover, as empty on a return.
Default(f, w) ==
    IF f[2] = "quantity" /\ paper = "HANDOVER" /\ w.say[f] = Null THEN "expected" ELSE w.say[f]

FormOf(w) == [f \in Fields |-> Default(f, w)]

-----------------------------------------------------------------------------
(* What the services take *)

\* assertReadyForHandover; assertReturnable for a return that has been started.
AtTheDesk(w) ==
    w.status = IF paper = "HANDOVER" THEN "READY_FOR_HANDOVER" ELSE "RETURN_INSPECTION"

\* requireOpenHandover, requireOpenReturn.
TakesAnswers(w) == AtTheDesk(w) /\ w.state = "OPEN"

TakesSignature(w, r) ==
    TakesAnswers(w) /\ ~(paper = "HANDOVER" /\ r = "EDITOR" /\ w.obstacle = "editor")

TakesCompletion(w) == TakesAnswers(w) /\ BookingBlockers(w) = {} /\ VerdictComplete(w)

\* A document there is is reused, unless it is the return's and finished.
Reuses(w) == w.state # "NONE" /\ (paper = "RETURN" => w.state # "COMPLETED")

TakesStart(w) ==
    \/ Reuses(w)
    \/ /\ w.state = "NONE"
       /\ w.status = IF paper = "HANDOVER" THEN "READY_FOR_HANDOVER" ELSE "CHECKED_OUT"
       /\ BookingBlockers(w) = {}

\* What was answered in preparation is carried into a handover.
Prepared == [Checklist -> {Null, "PASS"}]
Unprepared == [c \in Checklist |-> Null]

Started(prepared) ==
    [f \in Fields |->
        CASE f[2] = "answer" /\ paper = "HANDOVER" -> prepared[f[1]]
          [] f[2] = "status"         -> IF paper = "HANDOVER" THEN "INCLUDED" ELSE "NOT_APPLICABLE"
          [] f[2] = "suitcaseStatus" -> "GOOD"
          [] OTHER                 -> Null]

\* Every posted line is written, its notes even when they were not posted.
EquipmentSaved(say, form) ==
    [f \in Fields |->
        IF f \in EquipmentControls THEN form[f]
        ELSE IF f \in LineFields
             THEN IF f[2] = "status" THEN "NOT_APPLICABLE" ELSE Null
             ELSE say[f]]

\* A check without an answer has no result, whatever was noted beside it.
ChecklistSaved(say, form) ==
    [f \in Fields |->
        IF f \in CheckFields
        THEN IF form[<<f[1], "answer">>] = Null THEN Null ELSE form[f]
        ELSE say[f]]

\* The document is frozen, and the booking moves on.
Completes ==
    /\ TakesCompletion(world)
    /\ world' = [world EXCEPT !.state = "COMPLETED",
                   !.status = IF paper = "HANDOVER" THEN "CHECKED_OUT" ELSE "COMPLETED"]

-----------------------------------------------------------------------------
(* States in which a page is opened *)

Answers(v) ==
    [f \in Fields |->
        CASE f \in CheckFields       -> IF f[2] = "answer" THEN "PASS" ELSE Null
          [] f[2] = "status"         -> IF f[1] \in went THEN v ELSE "NOT_APPLICABLE"
          [] f[2] = "suitcaseStatus" -> "GOOD"
          [] OTHER                   -> Null]

Documents ==
    {[status |-> IF paper = "HANDOVER" THEN "READY_FOR_HANDOVER" ELSE "CHECKED_OUT",
      obstacle |-> "none", state |-> "NONE", say |-> Started(Unprepared),
      signed |-> [r \in Signatories |-> "none"]]}
    \cup
    {[status |-> IF paper = "HANDOVER" THEN "READY_FOR_HANDOVER" ELSE "RETURN_INSPECTION",
      obstacle |-> "none", state |-> "OPEN", say |-> say, signed |-> signed] :
        say \in {Started(Unprepared), Answers("INCLUDED")},
        signed \in {[r \in Signatories |-> s] : s \in {"none", "drawn"}}}

DeskFormsInit ==
    /\ paper \in Papers
    /\ went \in IF paper = "HANDOVER" THEN {Gear \cup Parts}
                ELSE {w \in SUBSET (Gear \cup Parts) : Must \cap Gear \subseteq w}
    /\ world \in Documents
    /\ page = Closed /\ result = "none"
    /\ gestures = 0 /\ posts = 0 /\ elsewhere = 0

-----------------------------------------------------------------------------
(* The page *)

\* Rendered with what is there now.  Steps that are no longer shown lose their
\* state; a pad that closes loses its canvas, and its ink flag stays.
Rendered(p, w) ==
    LET q == [p EXCEPT !.open = TRUE, !.read = w, !.form = FormOf(w), !.typed = {}]
    IN  IF ~StepsShown(w)
        THEN [Closed EXCEPT !.open = TRUE, !.read = w, !.form = FormOf(w)]
        ELSE [q EXCEPT !.pad = [r \in Signatories |->
                                  [p.pad[r] EXCEPT !.inked = p.pad[r].inked /\ PadOpen(r, q)]]]

OpenPage ==
    /\ ~page.open
    /\ page' = Rendered(Closed, world) /\ result' = "opened"
    /\ UNCHANGED <<paper, went, world, gestures, posts, elsewhere>>

Leave ==
    /\ page.open
    /\ page' = Closed /\ result' = "left"
    /\ UNCHANGED <<paper, went, world, gestures, posts, elsewhere>>

\* A post that is taken changes the document and renders the page again; one
\* that is refused shows why.
Taken(w) ==
    /\ world' = w /\ page' = Rendered(page, w) /\ posts' = posts + 1
    /\ UNCHANGED <<paper, went, gestures, elsewhere>>

Refused(p) ==
    /\ page' = p /\ result' = "refused" /\ posts' = posts + 1
    /\ UNCHANGED <<paper, went, world, gestures, elsewhere>>

MayPost    == page.open /\ posts < MaxPosts
MayGesture == page.open /\ gestures < MaxGestures

PressStart ==
    /\ MayPost /\ StartOffered(page.read)
    /\ \/ /\ ~TakesStart(world) /\ Refused(page)
       \/ /\ TakesStart(world) /\ result' = "started"
          /\ \E prepared \in Prepared :
                Taken(IF Reuses(world) THEN world
                      ELSE [world EXCEPT !.state = "OPEN", !.say = Started(prepared),
                              !.status = IF paper = "RETURN" THEN "RETURN_INSPECTION" ELSE world.status])

\* What a control can be set to.  A radio, once chosen, cannot be unset; the
\* select of a return can.
Settings(f) ==
    CASE f[2] = "status"         -> ItemConditions
      [] f[2] = "quantity"       -> {Null, "fewer"}
      [] f[2] = "answer"         -> ChecklistAnswers \cup (IF paper = "RETURN" THEN {Null} ELSE {})
      [] f[2] = "suitcaseStatus" -> {"DAMAGED"}
      [] OTHER                   -> {Null, "noted"}

SetControl ==
    /\ MayGesture
    /\ \E f \in Controls \ page.typed : \E v \in Settings(f) \ {page.form[f]} :
          page' = [page EXCEPT !.form[f] = v, !.typed = @ \cup {f}]
    /\ result' = "typed" /\ gestures' = gestures + 1
    /\ UNCHANGED <<paper, went, world, posts, elsewhere>>

\* "Amend answers"; "Keep as prepared" takes the controls away, and what was
\* chosen with them.
Amend ==
    /\ MayGesture /\ paper = "HANDOVER"
    /\ FormsOffered(page.read) /\ AnyAnswered(page.read)
    /\ page' = [page EXCEPT !.amending = ~@, !.typed = @ \ CheckFields,
                  !.form = [f \in Fields |-> IF f \in CheckFields THEN Default(f, page.read)
                                             ELSE page.form[f]]]
    /\ result' = "typed" /\ gestures' = gestures + 1
    /\ UNCHANGED <<paper, went, world, posts, elsewhere>>

SaveEquipment ==
    /\ MayPost /\ FormsOffered(page.read)
    /\ paper = "RETURN" => Gear \cap went # {}
    /\ \/ ~TakesAnswers(world) /\ Refused(Closed)
       \/ /\ TakesAnswers(world) /\ result' = "equipment"
          /\ Taken([world EXCEPT !.say = EquipmentSaved(@, page.form)])

SaveChecklist ==
    /\ MayPost /\ Editing
    /\ \/ ~TakesAnswers(world) /\ Refused(Closed)
       \/ /\ TakesAnswers(world) /\ result' = "checklist"
          /\ Taken([world EXCEPT !.say = ChecklistSaved(@, page.form)])

-----------------------------------------------------------------------------
(* Signatures *)

Gestured(r, pad) ==
    /\ page' = [page EXCEPT !.pad[r] = pad]
    /\ result' = "typed" /\ gestures' = gestures + 1
    /\ UNCHANGED <<paper, went, world, posts, elsewhere>>

Draw(r) ==
    /\ MayGesture /\ PadOpen(r, page)
    /\ Gestured(r, [page.pad[r] EXCEPT !.hasInk = TRUE, !.inked = TRUE])

ClearPad(r) ==
    /\ MayGesture /\ PadOpen(r, page)
    /\ Gestured(r, [page.pad[r] EXCEPT !.hasInk = FALSE, !.inked = FALSE])

\* (Fault) the pad opens with the ink flag of the last drawing.
PadAgainAsItWas(pad) == [pad EXCEPT !.resign = TRUE, !.inked = FALSE]

\* The pad that opens is blank, and counts as blank.
PadAgain(pad) == [pad EXCEPT !.resign = TRUE, !.inked = FALSE, !.hasInk = FALSE]

SignAgain(r) ==
    /\ MayGesture /\ FormsOffered(page.read)
    /\ page.read.signed[r] # "none" /\ ~page.pad[r].resign
    /\ Gestured(r, PadAgain(page.pad[r]))

KeepExisting(r) ==
    /\ MayGesture /\ PadOpen(r, page) /\ page.read.signed[r] # "none"
    /\ Gestured(r, [page.pad[r] EXCEPT !.resign = FALSE, !.inked = FALSE])

\* A pad without ink posts nothing.  The canvas is posted as it is.
SaveSignature(r) ==
    /\ MayPost /\ PadOpen(r, page) /\ page.pad[r].hasInk
    /\ \/ ~TakesSignature(world, r) /\ Refused(page)
       \/ /\ TakesSignature(world, r) /\ result' = "signature"
          /\ Taken([world EXCEPT !.signed[r] = IF page.pad[r].inked THEN "drawn" ELSE "blank"])

-----------------------------------------------------------------------------
(* Completion *)

Confirm ==
    /\ MayGesture /\ FormsOffered(page.read) /\ CanComplete(page.read)
    /\ page' = [page EXCEPT !.confirmed = ~@]
    /\ result' = "typed" /\ gestures' = gestures + 1
    /\ UNCHANGED <<paper, went, world, posts, elsewhere>>

PressComplete ==
    /\ MayPost /\ FormsOffered(page.read) /\ CanComplete(page.read) /\ page.confirmed
    /\ \/ ~TakesCompletion(world) /\ Refused(page)
       \/ /\ Completes /\ result' = "completed"
          /\ page' = Closed /\ posts' = posts + 1
          /\ UNCHANGED <<paper, went, gestures, elsewhere>>

-----------------------------------------------------------------------------
(* Other people *)

\* An answer, a signature or a start, through another page.
OtherAnswers ==
    /\ TakesAnswers(world)
    /\ \E f \in EquipmentControls \cup CheckFields : \E v \in Settings(f) \ {world.say[f]} :
          /\ f[2] = "remark" => world.say[<<f[1], "answer">>] # Null
          /\ world' = [world EXCEPT !.say = [ChecklistSaved(world.say, [world.say EXCEPT ![f] = v])
                                               EXCEPT ![f] = v]]

OtherSigns ==
    \E r \in Signatories : /\ TakesSignature(world, r) /\ world.signed[r] = "none"
                           /\ world' = [world EXCEPT !.signed[r] = "drawn"]

OtherStarts ==
    /\ world.state = "NONE" /\ TakesStart(world)
    /\ world' = [world EXCEPT !.state = "OPEN", !.say = Started(Unprepared),
                   !.status = IF paper = "RETURN" THEN "RETURN_INSPECTION" ELSE world.status]

\* The booking goes back to reserved, and is set aside again; the kit becomes
\* unfit, or the editor inactive.
BookingMoves ==
    /\ paper = "HANDOVER" /\ world.state # "COMPLETED"
    /\ \/ \E s \in {"RESERVED", "READY_FOR_HANDOVER"} \ {world.status} :
             world' = [world EXCEPT !.status = s]
       \/ \E o \in {"none", "kit", "editor"} \ {world.obstacle} :
             world' = [world EXCEPT !.obstacle = o]

Elsewhere ==
    /\ elsewhere < MaxElsewhere /\ elsewhere' = elsewhere + 1 /\ result' = "elsewhere"
    /\ \/ Completes
       \/ /\ OtherAnswers \/ OtherSigns \/ OtherStarts \/ BookingMoves
    /\ UNCHANGED <<paper, went, page, gestures, posts>>

DeskFormsNext ==
    \/ OpenPage \/ Leave \/ PressStart \/ SetControl \/ Amend
    \/ SaveEquipment \/ SaveChecklist
    \/ \E r \in Signatories : \/ Draw(r) \/ ClearPad(r) \/ SignAgain(r) \/ KeepExisting(r)
                              \/ SaveSignature(r)
    \/ Confirm \/ PressComplete
    \/ Elsewhere

DeskFormsSpec == DeskFormsInit /\ [][DeskFormsNext]_deskFormVars

-----------------------------------------------------------------------------
(* Properties *)

\* What a field says: at a handover, a quantity nobody entered is the expected
\* one, and that is what its empty record means.
Meaning(f, w) == Default(f, w)

Saves == {"equipment", "checklist"}
Unanswered(f) == f[2] = "remark" /\ page.form[<<f[1], "answer">>] = Null

\* What is put down is what is stored: a save changes what was set on the page,
\* to what it was set to, and nothing else that nobody changed since the page
\* was rendered (but a remark needs an answer beside it); and no signature is
\* stored of a blank pad, however pads were opened, cleared and closed before.
StoredAsPutDown ==
    [][/\ result' \in Saves =>
            \A f \in Fields :
               \/ Unanswered(f)
               \/ IF f \in page.typed /\ (f \in CheckFields <=> result' = "checklist")
                  THEN Meaning(f, world') = Default(f, [world EXCEPT !.say[f] = page.form[f]])
                  ELSE Meaning(f, world) = Meaning(f, page.read)
                           => Meaning(f, world') = Meaning(f, world)
       /\ result' = "signature" => \A r \in Signatories : world'.signed[r] # "blank"
      ]_deskFormVars

\* A page just rendered offers the start and the completion exactly when the
\* service would take them, every step the service would take, and no save or
\* signature that it would refuse, unless it says itself what stands in the way.
OffersHold ==
    LET w == page.read  Explained == BookingBlockers(w) # {} IN
    page.open /\ w = world =>
        /\ w.state = "NONE" => (StartOffered(w) <=> TakesStart(w))
        /\ (FormsOffered(w) /\ CanComplete(w)) <=> TakesCompletion(w)
        /\ TakesAnswers(w) => FormsOffered(w)
        /\ FormsOffered(w) /\ ~Explained
              => TakesAnswers(w) /\ \A r \in Signatories : TakesSignature(w, r)
=============================================================================
