------------------------------- MODULE Desk --------------------------------
(***************************************************************************)
(* The desk of one booking: its handover document and its return document, *)
(* from the first answer to the signed, frozen record.                     *)
(*                                                                         *)
(* The services of the two documents have the same shape, so each action   *)
(* is written once, with the document as a parameter.  Answers are saved   *)
(* at READ COMMITTED: a call checks that the document is open, writes its  *)
(* answers, reads the document again to work out its status, and commits.  *)
(* A signature's checks come before its transaction, and its image is a    *)
(* file.  A completion is SERIALIZABLE: it decides on one snapshot and     *)
(* fails when a row it writes has changed since; rows it only read may     *)
(* have.  Whether the booking gets to the desk, and what becomes of its    *)
(* kit, is BookingLifecycle's and BookingTransactions'.                    *)
(***************************************************************************)
EXTENDS Integers, FiniteSets, TLC

CONSTANTS Items,         \* equipment recorded at the start of the handover
          Required,      \* the items the kit may not leave without
          Desks,         \* calls that can be under way at once
          EquipmentInputs, \* what people answer about the equipment
          CheckInputs,   \* what they answer about the one required check
          MaxImages,     \* bound: images a signature has at one time
          MaxStray       \* bound: captures that die or lose their answer

Conditions == {"INCLUDED", "MISSING", "DAMAGED", "NOT_APPLICABLE"}
Problems   == {"MISSING", "DAMAGED"}
Checks     == {"none", "PASS", "FAIL"}
Docs       == {"HANDOVER", "RETURN"}
Roles      == {"EDITOR", "ENGINEER"}

ASSUME DeskAssumption ==
    /\ Required \subseteq Items /\ Items # {}
    /\ EquipmentInputs \subseteq [Items -> Conditions]
    /\ CheckInputs \subseteq Checks
    /\ MaxImages \in [Docs \X Roles -> Nat] /\ MaxStray \in Nat

\* An image is named by the signature it was captured for, and a number.
Images  == UNION {{<<d, r, n>> : n \in 1 .. MaxImages[d, r]} : d \in Docs, r \in Roles}
NoImage == <<"none">>

VARIABLES
    stage,     \* Booking.status, from ready for handover on
    doc,       \* doc[d]: the live inspection of the type, and what hangs on it
    asset,     \* asset[i]: Asset.status
    raised,    \* raised[i]: issues raised about i
    fit,       \* the kit, its required members and the editor pass the checks
    files,     \* images in the store
    rows,      \* images a Signature row names, live or voided
    call,      \* call[c]: the call under way
    overtaken, \* (history) documents completed past a call that had been let in
    stray      \* (history) images whose capture died, or never heard of its commit

deskVars == <<stage, doc, asset, raised, fit, files, rows, call, overtaken, stray>>

\* What a document says: the lines, the required check, the live signatures.
Blank == [lines  |-> [i \in Items |-> "NOT_APPLICABLE"], check |-> "none",
          signed |-> [r \in Roles |-> NoImage]]

NoDoc == [state |-> "NONE", locked |-> FALSE, now |-> Blank, frozen |-> Blank]

\* at: "idle"; "checked", its checks passed; "refreshed", its answers are
\* written, and `next' is the status it found due ("keep": as it read it);
\* "decided", a completion that has its snapshot.  content is what a save
\* writes, or what a completion read.  missed is what has committed since: the
\* inspection's "row", or other "answers" and signatures.
Idle == [op |-> "none", doc |-> "HANDOVER", at |-> "idle", content |-> Blank,
         role |-> "EDITOR", image |-> NoImage, next |-> "keep", missed |-> {}]

Contents == [lines : [Items -> Conditions], check : Checks, signed : [Roles -> Images \cup {NoImage}]]

DeskTypeOK ==
    /\ stage \in {"READY_FOR_HANDOVER", "CHECKED_OUT", "RETURN_INSPECTION", "COMPLETED"}
    /\ doc \in [Docs -> [state : {"NONE", "IN_PROGRESS", "PENDING_SIGNATURES", "COMPLETED"},
                         locked : BOOLEAN, now : Contents, frozen : Contents]]
    /\ \A d \in Docs : doc[d].locked => doc[d].state # "NONE"
    /\ asset \in [Items -> {"AVAILABLE", "CHECKED_OUT", "MISSING", "DAMAGED"}]
    /\ raised \in [Items -> Nat]
    /\ fit \in BOOLEAN
    /\ files \cup rows \cup stray \subseteq Images
    /\ overtaken \subseteq Docs
    /\ \A c \in Desks : call[c].content \in Contents

DeskInit ==
    /\ stage = "READY_FOR_HANDOVER"
    /\ doc = [d \in Docs |-> NoDoc]
    /\ asset = [i \in Items |-> "AVAILABLE"]
    /\ raised = [i \in Items |-> 0]
    /\ fit = TRUE
    /\ files = {} /\ rows = {}
    /\ call = [c \in Desks |-> Idle]
    /\ overtaken = {} /\ stray = {}

-----------------------------------------------------------------------------
(* What a document needs *)

HandedOver == {i \in Items : doc["HANDOVER"].now.lines[i] = "INCLUDED"}

\* (Fault) a required item only has to be answered.
EquipmentVerifiedLoosely(lines) == \A i \in Required : lines[i] # "NOT_APPLICABLE"

\* verificationVerdict and returnVerdict, signatures apart.
EquipmentVerified(lines) == \A i \in Required : lines[i] = "INCLUDED"

\* (Fault) one answer is enough.
EquipmentAccountedPartly(lines) == \E i \in HandedOver : lines[i] # "NOT_APPLICABLE"

EquipmentAccounted(lines) ==
    HandedOver # {} /\ \A i \in HandedOver : lines[i] # "NOT_APPLICABLE"

Answered(d, content) ==
    IF d = "HANDOVER"
    THEN EquipmentVerified(content.lines) /\ fit /\ content.check = "PASS"
    ELSE EquipmentAccounted(content.lines) /\ content.check # "none"

\* The person who brings a kit back need not sign.
Signers(d) == IF d = "HANDOVER" THEN Roles ELSE {"ENGINEER"}
Signed(d, content) == \A r \in Signers(d) : content.signed[r] # NoImage

\* refreshInspectionStatus, refreshReturnStatus.
StatusDue(d, content) == IF Answered(d, content) THEN "PENDING_SIGNATURES" ELSE "IN_PROGRESS"

\* assertReadyForHandover; assertReturnable for a return that has been started.
AtStage(d) ==
    IF d = "HANDOVER" THEN stage = "READY_FOR_HANDOVER"
    ELSE stage = "RETURN_INSPECTION" /\ doc["HANDOVER"].state = "COMPLETED"

\* requireOpenHandover, requireOpenReturn.
Open(d) == /\ AtStage(d)
           /\ doc[d].state \notin {"NONE", "COMPLETED"} /\ ~doc[d].locked

-----------------------------------------------------------------------------
(* Calls *)

Free(c) == call[c].at = "idle"
Begin(c, record) == call' = [call EXCEPT ![c] = record]
End(c)           == call' = [call EXCEPT ![c] = Idle]

\* What the call sees of the document: what is committed, and what it wrote.
View(c) ==
    LET k == call[c]  now == doc[k.doc].now IN
    CASE k.op = "saveEquipment" -> [now EXCEPT !.lines = k.content.lines]
      [] k.op = "saveChecklist" -> [now EXCEPT !.check = k.content.check]
      [] OTHER                  -> [now EXCEPT !.signed[k.role] = k.image]

\* Calls that have let the document's check pass and have not ended.
LetIn(c, d) == call[c].at \in {"checked", "refreshed"} /\ call[c].doc = d /\ call[c].op # "start"

\* Rows another call has written and not committed: the same answers, the same
\* signature, or (an equipment save) the inspection itself.
Waits(c) ==
    \E o \in Desks \ {c} :
        /\ call[o].at = "refreshed" /\ call[o].doc = call[c].doc
        /\ \/ call[o].op = call[c].op /\ call[o].role = call[c].role
           \/ call[o].op = "saveEquipment" /\ call[c].op = "complete"

\* What a commit of c means to the other calls on document d.
Noticed(c, d, rowWritten) ==
    call' = [o \in Desks |->
        IF o = c THEN Idle
        ELSE IF call[o].doc = d /\ call[o].at = "decided"
        THEN [call[o] EXCEPT !.missed = @ \cup (IF rowWritten THEN {"row"} ELSE {"answers"})]
        ELSE call[o]]

-----------------------------------------------------------------------------
(* Start *)

\* A document there already is is reused; a handover or return that cannot
\* start is refused.
CheckStart(c, d) ==
    /\ Free(c)
    /\ doc[d].state = "NONE"
    /\ IF d = "HANDOVER" THEN stage = "READY_FOR_HANDOVER" /\ fit
       ELSE stage = "CHECKED_OUT" /\ doc["HANDOVER"].state = "COMPLETED"
    /\ Begin(c, [Idle EXCEPT !.op = "start", !.doc = d, !.at = "checked"])
    /\ UNCHANGED <<stage, doc, asset, raised, fit, files, rows, overtaken, stray>>

\* The handover copies the kit's items, INCLUDED until someone says otherwise,
\* and the answer given in preparation, whatever it was; the return copies the
\* handover's lines, unanswered.  One live document of each type: the second of
\* two starts is refused by the index, and its transaction cannot go on to read
\* the first one's.
Start(c) ==
    LET d == call[c].doc IN
    /\ call[c].op = "start"
    /\ IF doc[d].state # "NONE"
       THEN End(c) /\ UNCHANGED <<stage, doc>>
       ELSE /\ \E prepared \in IF d = "HANDOVER" THEN CheckInputs ELSE {"none"} :
                 doc' = [doc EXCEPT ![d] =
                    [NoDoc EXCEPT !.state = "IN_PROGRESS",
                       !.now = [Blank EXCEPT !.check = prepared,
                                  !.lines = [i \in Items |-> IF d = "HANDOVER" THEN "INCLUDED"
                                                             ELSE "NOT_APPLICABLE"]]]]
            /\ stage' = IF d = "RETURN" THEN "RETURN_INSPECTION" ELSE stage
            /\ End(c)
    /\ UNCHANGED <<asset, raised, fit, files, rows, overtaken, stray>>

-----------------------------------------------------------------------------
(* Answers and signatures *)

CheckSave(c, d) ==
    /\ Free(c)
    /\ Open(d)
    /\ \/ \E lines \in EquipmentInputs :
            Begin(c, [Idle EXCEPT !.op = "saveEquipment", !.doc = d, !.at = "checked",
                                  !.content.lines = lines])
       \/ \E answer \in CheckInputs :
            Begin(c, [Idle EXCEPT !.op = "saveChecklist", !.doc = d, !.at = "checked",
                                  !.content.check = answer])
    /\ UNCHANGED <<stage, doc, asset, raised, fit, files, rows, overtaken, stray>>

\* A file name is random: any that neither the store nor a row knows will do.
Known == files \cup rows \cup stray
Unknown(d, r) == {i \in Images \ Known : i[1] = d /\ i[2] = r}
FreshImage(d, r) == CHOOSE i \in Unknown(d, r) : TRUE

\* captureSignature checks first, then stores the image.
CheckCapture(c, d, r) ==
    /\ Free(c)
    /\ Open(d)
    /\ d = "HANDOVER" /\ r = "EDITOR" => fit
    /\ Unknown(d, r) # {}
    /\ files' = files \cup {FreshImage(d, r)}
    /\ Begin(c, [Idle EXCEPT !.op = "captureSignature", !.doc = d, !.at = "checked",
                             !.role = r, !.image = FreshImage(d, r)])
    /\ UNCHANGED <<stage, doc, asset, raised, fit, rows, overtaken, stray>>

\* The answers are written, nobody looking at the lock again, and the status
\* they make due is worked out from what is committed by now.
Refresh(c) ==
    LET k == call[c]  due == StatusDue(k.doc, View(c)) IN
    /\ k.at = "checked" /\ k.op # "start"
    /\ ~Waits(c)
    /\ call' = [call EXCEPT ![c].at = "refreshed",
                  ![c].next = IF due = doc[k.doc].state THEN "keep" ELSE due]
    /\ UNCHANGED <<stage, doc, asset, raised, fit, files, rows, overtaken, stray>>

\* UPDATE ... WHERE id: the trigger on locked inspections lets the status pass.
Written(c) ==
    LET k == call[c] IN
    [doc EXCEPT ![k.doc].now = View(c),
                ![k.doc].state = IF k.next = "keep" THEN doc[k.doc].state ELSE k.next]

CommitSave(c) ==
    LET k == call[c] IN
    /\ k.at = "refreshed" /\ k.op # "captureSignature"
    /\ doc' = Written(c)
    /\ Noticed(c, k.doc, k.op = "saveEquipment" \/ k.next # "keep")
    /\ UNCHANGED <<stage, asset, raised, fit, files, rows, overtaken, stray>>

MayStray == Cardinality(stray) < MaxStray

\* (Fault) the image of the signature it replaces is removed.
CommitSignatureReplacing(c) ==
    LET k == call[c] IN
    /\ k.at = "refreshed" /\ k.op = "captureSignature"
    /\ doc' = Written(c)
    /\ rows' = rows \cup {k.image}
    /\ Noticed(c, k.doc, k.next # "keep")
    /\ files' = files \ {doc[k.doc].now.signed[k.role]}
    /\ UNCHANGED <<stage, asset, raised, fit, overtaken, stray>>

\* The signature it replaces is voided, and its image kept.  When the answer to
\* the commit is lost, the image is removed as after any error.
CommitSignature(c) ==
    LET k == call[c] IN
    /\ k.at = "refreshed" /\ k.op = "captureSignature"
    /\ doc' = Written(c)
    /\ rows' = rows \cup {k.image}
    /\ Noticed(c, k.doc, k.next # "keep")
    /\ \/ UNCHANGED <<files, stray>>
       \/ MayStray /\ files' = files \ {k.image} /\ stray' = stray \cup {k.image}
    /\ UNCHANGED <<stage, asset, raised, fit, overtaken>>

\* A call ends in an error: its transaction is rolled back, and an image it
\* stored is removed, unless the process is gone.  Among the errors: the other
\* capture of the same signature was first (the index), the notes of a locked
\* inspection were changed (the trigger), a completion lost its snapshot.
Abort(c) ==
    LET k == call[c] IN
    /\ ~Free(c)
    /\ End(c)
    /\ \/ files' = files \ {k.image} /\ UNCHANGED stray
       \/ k.image # NoImage /\ MayStray /\ stray' = stray \cup {k.image} /\ UNCHANGED files
    /\ UNCHANGED <<stage, doc, asset, raised, fit, rows, overtaken>>

-----------------------------------------------------------------------------
(* Completion *)

\* SELECT ... FOR UPDATE, then every check again, on one snapshot.
Decide(c, d) ==
    /\ Free(c)
    /\ Open(d)
    /\ Answered(d, doc[d].now) /\ Signed(d, doc[d].now)
    /\ Begin(c, [Idle EXCEPT !.op = "complete", !.doc = d, !.at = "decided", !.content = doc[d].now])
    /\ UNCHANGED <<stage, doc, asset, raised, fit, files, rows, overtaken, stray>>

\* The asset's status its recorded condition implies.
StatusAfter(d, condition, status) ==
    CASE condition = "INCLUDED" -> IF d = "HANDOVER" THEN "CHECKED_OUT" ELSE "AVAILABLE"
      [] condition \in Problems -> condition
      [] OTHER                  -> status

\* (Fault) the completion runs READ COMMITTED, and nothing fails it.
CompletableUnguarded(c) == call[c].at = "decided" /\ ~Waits(c)

\* Nothing that it writes was written since its snapshot.
Completable(c) == call[c].at = "decided" /\ ~Waits(c) /\ "row" \notin call[c].missed

\* One issue for each line that came back missing or damaged.
IssuesFor(d, lines) == IF d = "RETURN" THEN {i \in Items : lines[i] \in Problems} ELSE {}

Complete(c) ==
    LET k == call[c]  d == k.doc  lines == k.content.lines IN
    /\ Completable(c)
    /\ doc' = [doc EXCEPT ![d].state = "COMPLETED", ![d].locked = TRUE, ![d].frozen = k.content]
    /\ stage' = IF d = "HANDOVER" THEN "CHECKED_OUT" ELSE "COMPLETED"
    /\ asset' = [i \in Items |-> StatusAfter(d, lines[i], asset[i])]
    /\ raised' = [i \in Items |-> raised[i] + IF i \in IssuesFor(d, lines) THEN 1 ELSE 0]
    /\ Noticed(c, d, TRUE)
    /\ overtaken' = IF "answers" \in k.missed \/ \E o \in Desks : LetIn(o, d)
                    THEN overtaken \cup {d} ELSE overtaken
    /\ UNCHANGED <<fit, files, rows, stray>>

\* Maintenance is opened on a required member, or it leaves the kit.
BecomeUnfit ==
    /\ fit /\ stage = "READY_FOR_HANDOVER"
    /\ fit' = FALSE
    /\ UNCHANGED <<stage, doc, asset, raised, files, rows, call, overtaken, stray>>

DeskNext ==
    \/ \E c \in Desks :
         \/ \E d \in Docs :
              \/ CheckStart(c, d) \/ CheckSave(c, d) \/ Decide(c, d)
              \/ \E r \in Roles : CheckCapture(c, d, r)
         \/ Start(c) \/ Refresh(c) \/ CommitSave(c) \/ CommitSignature(c)
         \/ Complete(c) \/ Abort(c)
    \/ BecomeUnfit

DeskSpec == DeskInit /\ [][DeskNext]_deskVars

-----------------------------------------------------------------------------
(* Properties *)

\* A completed document stays as it was signed, its answers, its signatures
\* and its status, unless a call was past its own check when it was completed:
\* nothing else checks again (requireOpenHandover, requireOpenReturn, the
\* SERIALIZABLE completions).
SettledAsSigned ==
    \A d \in Docs : doc[d].locked /\ d \notin overtaken
        => doc[d].state = "COMPLETED" /\ doc[d].now = doc[d].frozen

\* Nothing leaves half checked: whatever is answered and signed meanwhile, what
\* is out is what the frozen handover says, with every required item among it,
\* the required check passed and both signatures on it.
LeavesWholeAndSigned ==
    stage \in {"CHECKED_OUT", "RETURN_INSPECTION"} =>
        LET signed == doc["HANDOVER"].frozen IN
        /\ {i \in Items : asset[i] = "CHECKED_OUT"} = {i \in Items : signed.lines[i] = "INCLUDED"}
        /\ \A i \in Required : asset[i] = "CHECKED_OUT"
        /\ signed.check = "PASS"
        /\ \A r \in Roles : signed.signed[r] \in rows

\* A closed return leaves no loose end: each problem it recorded has one issue,
\* nothing else has any, and no item is still out, unless the handover's lines
\* were changed after it was signed (completeReturn reads them live).
ReturnAccountsForAll ==
    /\ \A i \in Items : raised[i] =
          IF stage = "COMPLETED" /\ doc["RETURN"].frozen.lines[i] \in Problems THEN 1 ELSE 0
    /\ stage = "COMPLETED" /\ "HANDOVER" \notin overtaken
          => \A i \in Items : asset[i] # "CHECKED_OUT"

\* Every signature ever taken keeps its image, and the store has no other
\* image, but for a capture that died or never heard that it had committed.
ImagesMatchSignatures ==
    /\ rows \ files \subseteq stray
    /\ files \ rows \subseteq stray \cup {call[c].image : c \in Desks}
=============================================================================
