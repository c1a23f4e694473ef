----------------------------- MODULE DeskProofs ------------------------------
(***************************************************************************)
(* Proofs about the desk, for any equipment, any number of calls under     *)
(* way, and however many captures die; and about its pages, for any        *)
(* document and any number of gestures, posts and other people's steps.    *)
(*                                                                         *)
(* DeskInv says what each call may rely on between its steps: which of     *)
(* what a completion read is still so, and that the image a capture has    *)
(* stored is its own.  DeskPagesInv says what an open page still has in    *)
(* common with its document.                                               *)
(***************************************************************************)
EXTENDS Desk, DeskForms, TLAPS

SaveOps == {"saveEquipment", "saveChecklist", "captureSignature"}

DocRows == [state : {"NONE", "IN_PROGRESS", "PENDING_SIGNATURES", "COMPLETED"},
            locked : BOOLEAN, now : Contents, frozen : Contents]

Records == [op : SaveOps \cup {"none", "start", "complete"}, doc : Docs,
            at : {"idle", "checked", "refreshed", "decided"}, content : Contents,
            role : Roles, image : Images \cup {NoImage},
            next : {"keep", "IN_PROGRESS", "PENDING_SIGNATURES"}, missed : SUBSET {"row", "answers"}]

DeskShape ==
    /\ stage \in {"READY_FOR_HANDOVER", "CHECKED_OUT", "RETURN_INSPECTION", "COMPLETED"}
    /\ doc \in [Docs -> DocRows]
    /\ asset \in [Items -> {"AVAILABLE", "CHECKED_OUT", "MISSING", "DAMAGED"}]
    /\ raised \in [Items -> Nat]
    /\ call \in [Desks -> Records]
    /\ NoImage \notin files \cup rows

\* The steps a call takes.
Formed(r) ==
    /\ r.at = "idle" => r.op = "none"
    /\ r.at = "checked" => r.op \in SaveOps \cup {"start"}
    /\ r.at = "refreshed" => r.op \in SaveOps
    /\ r.at = "decided" => r.op = "complete"

\* A capture's image is in the store and named by no row yet.
HoldsImage(r) ==
    IF r.op = "captureSignature" THEN r.image \in files \ rows ELSE r.image = NoImage

\* A call that was let in knows that its document is there, and if it is
\* locked by now, then it has been overtaken.
LetInSound(r) ==
    /\ r.op \in SaveOps \cup {"complete"} => doc[r.doc].state # "NONE"
    /\ r.op \in SaveOps /\ doc[r.doc].locked => r.doc \in overtaken
    /\ r.op = "start" /\ r.doc = "RETURN" => stage # "READY_FOR_HANDOVER"

\* What a completion found is complete and signed; and unless what it writes
\* was written since, the booking is where it was, and so is what it read.
DecisionSound(r) ==
    r.op = "complete" =>
        /\ \A p \in Roles : r.content.signed[p] \in rows \cup {NoImage}
        /\ Signed(r.doc, r.content)
        /\ r.doc = "HANDOVER" => EquipmentVerified(r.content.lines) /\ r.content.check = "PASS"
        /\ "row" \notin r.missed =>
              /\ stage = IF r.doc = "HANDOVER" THEN "READY_FOR_HANDOVER" ELSE "RETURN_INSPECTION"
              /\ "answers" \notin r.missed => r.content = doc[r.doc].now
              /\ r.doc = "RETURN" /\ "HANDOVER" \notin overtaken =>
                    \A i \in Items : doc["HANDOVER"].frozen.lines[i] = "INCLUDED"
                        => r.content.lines[i] # "NOT_APPLICABLE"

CallSound(r) == Formed(r) /\ HoldsImage(r) /\ LetInSound(r) /\ DecisionSound(r)

OwnImages ==
    \A c, o \in Desks : call[c].op = "captureSignature" /\ call[o].op = "captureSignature"
                            /\ call[c].image = call[o].image => c = o

DocSound(d) ==
    /\ doc[d].locked => /\ doc[d].state # "NONE"
                        /\ d \notin overtaken => doc[d].state = "COMPLETED" /\ doc[d].now = doc[d].frozen
    /\ \A p \in Roles : doc[d].now.signed[p] \in rows \cup {NoImage}

\* Where the booking is, and what that says of its documents and equipment.
StageSound ==
    /\ stage = "READY_FOR_HANDOVER" => \A i \in Items : asset[i] = "AVAILABLE"
    /\ stage # "READY_FOR_HANDOVER" => doc["HANDOVER"].locked
    /\ doc["RETURN"].state = "NONE" <=> stage \in {"READY_FOR_HANDOVER", "CHECKED_OUT"}
    /\ stage # "COMPLETED" => \A i \in Items : raised[i] = 0

DeskInv ==
    /\ DeskShape
    /\ \A c \in Desks : CallSound(call[c])
    /\ OwnImages
    /\ \A d \in Docs : DocSound(d)
    /\ StageSound
    /\ LeavesWholeAndSigned
    /\ ReturnAccountsForAll
    /\ ImagesMatchSignatures

USE DeskAssumption

LEMMA BlankContents == Blank \in Contents
BY DEF Blank, Contents, Conditions, Checks

LEMMA IdleIsSound == Idle \in Records /\ CallSound(Idle)
<1>1. Idle \in Records
  BY BlankContents DEF Idle, Records, Docs, Roles
<1>2. CallSound(Idle)
  BY DEF Idle, CallSound, Formed, HoldsImage, LetInSound, DecisionSound, SaveOps
<1> QED
  BY <1>1, <1>2

-----------------------------------------------------------------------------
(* What a step means to the calls under way *)

\* What no step takes back, and what the call r relies on.
Onward ==
    /\ rows \subseteq rows' /\ overtaken \subseteq overtaken'
    /\ \A d \in Docs : doc[d].state # "NONE" => doc'[d].state # "NONE"
    /\ stage # "READY_FOR_HANDOVER" => stage' # "READY_FOR_HANDOVER"

Kept(r) ==
    /\ r.op \in SaveOps /\ doc'[r.doc].locked => doc[r.doc].locked \/ r.doc \in overtaken'
    /\ r.op = "captureSignature" => r.image \in files' \ rows'
    /\ r.op = "complete" /\ "row" \notin r.missed =>
          /\ stage' = stage
          /\ "answers" \notin r.missed => doc'[r.doc].now = doc[r.doc].now
          /\ r.doc = "RETURN" => doc'["HANDOVER"].frozen = doc["HANDOVER"].frozen

LEMMA CallStays ==
    ASSUME NEW r \in Records, CallSound(r), Onward, Kept(r)
    PROVE  CallSound(r)'
<1>1. Formed(r)' /\ HoldsImage(r)'
  BY DEF CallSound, Formed, HoldsImage, Kept
<1>2. LetInSound(r)'
  BY DEF CallSound, LetInSound, Onward, Kept, Records
<1>3. DecisionSound(r)'
  <2> SUFFICES ASSUME r.op = "complete"
               PROVE  DecisionSound(r)'
    BY DEF DecisionSound
  <2>1. /\ \A p \in Roles : r.content.signed[p] \in rows' \cup {NoImage}
        /\ Signed(r.doc, r.content)'
        /\ r.doc = "HANDOVER" => EquipmentVerified(r.content.lines)' /\ r.content.check = "PASS"
    BY DEF CallSound, DecisionSound, Onward, Signed, EquipmentVerified
  <2>2. ASSUME "row" \notin r.missed
        PROVE  /\ stage' = IF r.doc = "HANDOVER" THEN "READY_FOR_HANDOVER" ELSE "RETURN_INSPECTION"
               /\ "answers" \notin r.missed => r.content = doc'[r.doc].now
               /\ r.doc = "RETURN" /\ "HANDOVER" \notin overtaken' =>
                     \A i \in Items : doc'["HANDOVER"].frozen.lines[i] = "INCLUDED"
                         => r.content.lines[i] # "NOT_APPLICABLE"
    BY <2>2 DEF CallSound, DecisionSound, Onward, Kept
  <2> QED
    BY <2>1, <2>2 DEF DecisionSound
<1> QED
  BY <1>1, <1>2, <1>3 DEF CallSound

\* Only the calls change, and no image changes hands.
LEMMA OnlyCalls ==
    ASSUME DeskInv, UNCHANGED <<stage, doc, asset, raised, files, rows, overtaken, stray>>,
           \A c \in Desks : \E r \in Records :
               /\ call'[c] = r /\ CallSound(r) /\ r.image = call[c].image
               /\ r.op = "captureSignature" => call[c].op = "captureSignature",
           DOMAIN call' = Desks, call' = [c \in Desks |-> call'[c]]
    PROVE  DeskInv'
<1>1. DeskShape'
  BY DEF DeskInv, DeskShape
<1>2. ASSUME NEW c \in Desks
      PROVE  CallSound(call[c])'
  <2>1. PICK r \in Records : call'[c] = r /\ CallSound(r)
    OBVIOUS
  <2>2. Onward /\ Kept(r)
    BY <2>1 DEF Onward, Kept, CallSound, HoldsImage
  <2>3. CallSound(r)'
    BY <2>1, <2>2, CallStays
  <2> QED
    BY <2>1, <2>3
<1>3. OwnImages'
  BY DEF DeskInv, OwnImages
<1>4. (\A d \in Docs : DocSound(d)') /\ StageSound'
  BY DEF DeskInv, DocSound, StageSound
<1>5. LeavesWholeAndSigned' /\ ReturnAccountsForAll'
  BY DEF DeskInv, LeavesWholeAndSigned, ReturnAccountsForAll
<1>6. ImagesMatchSignatures'
  BY DEF DeskInv, ImagesMatchSignatures
<1> QED
  BY <1>1, <1>2, <1>3, <1>4, <1>5, <1>6 DEF DeskInv

\* A call begins that stores no image.
LEMMA CallBegins ==
    ASSUME DeskInv, NEW c \in Desks, Free(c), NEW r \in Records, CallSound(r),
           r.op # "captureSignature", Begin(c, r),
           UNCHANGED <<stage, doc, asset, raised, files, rows, overtaken, stray>>
    PROVE  DeskInv'
<1>1. call[c].image = NoImage
  BY DEF DeskInv, CallSound, Formed, HoldsImage, Free
<1>2. r.image = NoImage
  BY DEF CallSound, HoldsImage
<1>3. call \in [Desks -> Records] /\ \A o \in Desks : CallSound(call[o])
  BY DEF DeskInv, DeskShape
<1>4. call' = [call EXCEPT ![c] = r]
  BY DEF Begin
<1>5. \A o \in Desks : \E s \in Records :
               /\ call'[o] = s /\ CallSound(s) /\ s.image = call[o].image
               /\ s.op = "captureSignature" => call[o].op = "captureSignature"
  BY <1>1, <1>2, <1>3, <1>4
<1> QED
  BY <1>3, <1>4, <1>5, OnlyCalls

-----------------------------------------------------------------------------
(* Calls begin *)

LEMMA StartsBegin ==
    ASSUME DeskInv, NEW c \in Desks, NEW d \in Docs, CheckStart(c, d)
    PROVE  DeskInv'
<1> DEFINE r == [Idle EXCEPT !.op = "start", !.doc = d, !.at = "checked"]
<1>1. /\ r \in Records /\ r.op = "start" /\ r.doc = d /\ r.at = "checked" /\ r.image = NoImage
  BY IdleIsSound DEF Idle, Records, Docs
<1>2. Begin(c, r) /\ Free(c) /\ UNCHANGED <<stage, doc, asset, raised, files, rows, overtaken, stray>>
  BY DEF CheckStart
<1>3. d = "RETURN" => stage # "READY_FOR_HANDOVER"
  BY DEF CheckStart
<1> HIDE DEF r
<1>4. CallSound(r)
  BY <1>1, <1>3 DEF CallSound, Formed, HoldsImage, LetInSound, DecisionSound, SaveOps
<1> QED
  BY <1>1, <1>2, <1>4, CallBegins

LEMMA SavesBegin ==
    ASSUME DeskInv, NEW c \in Desks, NEW d \in Docs, CheckSave(c, d)
    PROVE  DeskInv'
<1>1. Free(c) /\ Open(d) /\ UNCHANGED <<stage, doc, asset, raised, files, rows, overtaken, stray>>
  BY DEF CheckSave
<1>2. ASSUME NEW r \in Records, r.op \in {"saveEquipment", "saveChecklist"}, r.doc = d,
             r.at = "checked", r.image = NoImage, Begin(c, r)
      PROVE  DeskInv'
  <2>1. CallSound(r)
    BY <1>1, <1>2 DEF CallSound, Formed, HoldsImage, LetInSound, DecisionSound, SaveOps, Open
  <2> QED
    BY <1>1, <1>2, <2>1, CallBegins
<1>3. ASSUME NEW lines \in EquipmentInputs,
             Begin(c, [Idle EXCEPT !.op = "saveEquipment", !.doc = d, !.at = "checked",
                                   !.content.lines = lines])
      PROVE  DeskInv'
  <2> DEFINE r == [Idle EXCEPT !.op = "saveEquipment", !.doc = d, !.at = "checked",
                               !.content.lines = lines]
  <2>1. [Blank EXCEPT !.lines = lines] \in Contents
    BY BlankContents DEF Contents
  <2>2. /\ r \in Records /\ r.op = "saveEquipment" /\ r.doc = d /\ r.at = "checked"
        /\ r.image = NoImage
    BY <2>1, IdleIsSound DEF Idle, Records, Docs, SaveOps
  <2> HIDE DEF r
  <2> QED
    BY <1>2, <1>3, <2>2 DEF r
<1>4. ASSUME NEW answer \in CheckInputs,
             Begin(c, [Idle EXCEPT !.op = "saveChecklist", !.doc = d, !.at = "checked",
                                   !.content.check = answer])
      PROVE  DeskInv'
  <2> DEFINE r == [Idle EXCEPT !.op = "saveChecklist", !.doc = d, !.at = "checked",
                               !.content.check = answer]
  <2>1. [Blank EXCEPT !.check = answer] \in Contents
    BY BlankContents DEF Contents
  <2>2. /\ r \in Records /\ r.op = "saveChecklist" /\ r.doc = d /\ r.at = "checked"
        /\ r.image = NoImage
    BY <2>1, IdleIsSound DEF Idle, Records, Docs, SaveOps
  <2> HIDE DEF r
  <2> QED
    BY <1>2, <1>4, <2>2 DEF r
<1> QED
  BY <1>3, <1>4 DEF CheckSave

LEMMA CompletionsBegin ==
    ASSUME DeskInv, NEW c \in Desks, NEW d \in Docs, Decide(c, d)
    PROVE  DeskInv'
<1>1. PICK content \in Contents : content = doc[d].now
  BY DEF DeskInv, DeskShape, DocRows
<1> DEFINE r == [Idle EXCEPT !.op = "complete", !.doc = d, !.at = "decided", !.content = content]
<1>2. /\ r \in Records /\ r.op = "complete" /\ r.doc = d /\ r.at = "decided" /\ r.image = NoImage
      /\ r.content = content /\ r.missed = {}
  BY IdleIsSound DEF Idle, Records, Docs
<1>3. Begin(c, r) /\ Free(c) /\ UNCHANGED <<stage, doc, asset, raised, files, rows, overtaken, stray>>
  BY <1>1 DEF Decide
<1>4. Open(d) /\ Answered(d, content) /\ Signed(d, content)
  BY <1>1 DEF Decide
<1> HIDE DEF r
<1>5. DecisionSound(r)
  <2>1. \A p \in Roles : content.signed[p] \in rows \cup {NoImage}
    BY <1>1 DEF DeskInv, DocSound
  <2>2. d = "HANDOVER" => EquipmentVerified(content.lines) /\ content.check = "PASS"
    BY <1>4 DEF Answered
  <2>3. stage = IF d = "HANDOVER" THEN "READY_FOR_HANDOVER" ELSE "RETURN_INSPECTION"
    BY <1>4 DEF Open, AtStage
  <2>4. ASSUME d = "RETURN", "HANDOVER" \notin overtaken, NEW i \in Items,
               doc["HANDOVER"].frozen.lines[i] = "INCLUDED"
        PROVE  content.lines[i] # "NOT_APPLICABLE"
    <3>1. doc["HANDOVER"].locked
      BY <2>3, <2>4 DEF DeskInv, StageSound
    <3>2. doc["HANDOVER"].now = doc["HANDOVER"].frozen
      BY <2>4, <3>1 DEF DeskInv, DocSound, Docs
    <3>3. i \in HandedOver
      BY <2>4, <3>2 DEF HandedOver
    <3> QED
      BY <1>4, <2>4, <3>3 DEF Answered, EquipmentAccounted
  <2> QED
    BY <1>1, <1>2, <1>4, <2>1, <2>2, <2>3, <2>4 DEF DecisionSound
<1>6. CallSound(r)
  BY <1>2, <1>4, <1>5 DEF CallSound, Formed, HoldsImage, LetInSound, Open, SaveOps
<1> QED
  BY <1>2, <1>3, <1>6, CallBegins

LEMMA CapturesBegin ==
    ASSUME DeskInv, NEW c \in Desks, NEW d \in Docs, NEW p \in Roles, CheckCapture(c, d, p)
    PROVE  DeskInv'
<1>1. PICK f \in Unknown(d, p) : f = FreshImage(d, p)
  BY DEF CheckCapture, FreshImage
<1>2. f \in Images /\ f \notin files \cup rows \cup stray /\ f # NoImage
  BY DEF Unknown, Known, NoImage, Docs
<1> DEFINE r == [Idle EXCEPT !.op = "captureSignature", !.doc = d, !.at = "checked",
                             !.role = p, !.image = f]
<1>3. /\ r \in Records /\ r.op = "captureSignature" /\ r.doc = d /\ r.at = "checked" /\ r.image = f
  BY <1>2, IdleIsSound DEF Idle, Records, Docs, SaveOps
<1>4. /\ call' = [call EXCEPT ![c] = r] /\ Free(c) /\ Open(d) /\ files' = files \cup {f}
      /\ UNCHANGED <<stage, doc, asset, raised, rows, overtaken, stray>>
  BY <1>1 DEF CheckCapture, Begin
<1> HIDE DEF r
<1>5. call \in [Desks -> Records] /\ \A o \in Desks : CallSound(call[o])
  BY DEF DeskInv, DeskShape
<1>6. DeskShape'
  BY <1>2, <1>3, <1>4 DEF DeskInv, DeskShape
<1>7. CallSound(r)'
  BY <1>2, <1>3, <1>4 DEF CallSound, Formed, HoldsImage, LetInSound, DecisionSound, SaveOps, Open
<1>8. ASSUME NEW o \in Desks
      PROVE  CallSound(call[o])'
  <2>1. CASE o = c
    BY <1>4, <1>5, <1>7, <2>1
  <2>2. CASE o # c
    <3>1. PICK s \in Records : s = call[o] /\ s = call'[o] /\ CallSound(s)
      BY <1>4, <1>5, <2>2
    <3>2. Onward /\ Kept(s)
      BY <1>4, <3>1 DEF Onward, Kept, CallSound, HoldsImage
    <3> QED
      BY <3>1, <3>2, CallStays
  <2> QED
    BY <2>1, <2>2
<1>9. OwnImages'
  <2>1. \A o \in Desks : call[o].op = "captureSignature" => call[o].image # f
    BY <1>2, <1>5 DEF CallSound, HoldsImage
  <2>2. call'[c] = r /\ \A o \in Desks \ {c} : call'[o] = call[o]
    BY <1>4, <1>5
  <2> QED
    BY <1>3, <2>1, <2>2 DEF DeskInv, OwnImages
<1>10. (\A e \in Docs : DocSound(e)') /\ StageSound'
  BY <1>4 DEF DeskInv, DocSound, StageSound
<1>11. LeavesWholeAndSigned' /\ ReturnAccountsForAll'
  BY <1>4 DEF DeskInv, LeavesWholeAndSigned, ReturnAccountsForAll
<1>12. ImagesMatchSignatures'
  <2>1. call[c].image = NoImage /\ NoImage \notin files
    BY <1>4, <1>5 DEF CallSound, Formed, HoldsImage, Free, DeskInv, DeskShape
  <2>2. call'[c].image = f /\ \A o \in Desks \ {c} : call'[o].image = call[o].image
    BY <1>3, <1>4, <1>5
  <2> QED
    BY <1>4, <2>1, <2>2 DEF DeskInv, ImagesMatchSignatures
<1> QED
  BY <1>6, <1>8, <1>9, <1>10, <1>11, <1>12 DEF DeskInv

LEMMA CallsRefresh ==
    ASSUME DeskInv, NEW c \in Desks, Refresh(c)
    PROVE  DeskInv'
<1>1. call \in [Desks -> Records] /\ \A o \in Desks : CallSound(call[o])
  BY DEF DeskInv, DeskShape
<1>2. PICK k \in Records : k = call[c]
  BY <1>1
<1>3. PICK next \in {"keep", "IN_PROGRESS", "PENDING_SIGNATURES"} :
        call' = [call EXCEPT ![c] = [k EXCEPT !.at = "refreshed", !.next = next]]
  BY <1>1, <1>2 DEF Refresh, StatusDue
<1> DEFINE r == [k EXCEPT !.at = "refreshed", !.next = next]
<1>4. /\ r \in Records /\ r.at = "refreshed" /\ r.op = k.op /\ r.doc = k.doc /\ r.image = k.image
      /\ r.content = k.content /\ r.missed = k.missed
  BY DEF Records
<1>5. call' = [call EXCEPT ![c] = r]
  BY <1>3
<1> HIDE DEF r
<1>6. k.op \in SaveOps
  BY <1>1, <1>2 DEF Refresh, CallSound, Formed, SaveOps
<1>7. CallSound(r)
  BY <1>1, <1>2, <1>4, <1>6 DEF CallSound, Formed, HoldsImage, LetInSound, DecisionSound, SaveOps
<1>8. UNCHANGED <<stage, doc, asset, raised, files, rows, overtaken, stray>>
  BY DEF Refresh
<1>9. \A o \in Desks : \E s \in Records :
               /\ call'[o] = s /\ CallSound(s) /\ s.image = call[o].image
               /\ s.op = "captureSignature" => call[o].op = "captureSignature"
  BY <1>1, <1>2, <1>4, <1>5, <1>7
<1> QED
  BY <1>1, <1>5, <1>8, <1>9, OnlyCalls

-----------------------------------------------------------------------------
(* Documents start *)

LEMMA DocumentsStart ==
    ASSUME DeskInv, NEW c \in Desks, Start(c)
    PROVE  DeskInv'
<1>1. call \in [Desks -> Records] /\ \A o \in Desks : CallSound(call[o])
  BY DEF DeskInv, DeskShape
<1>2. PICK d \in Docs : d = call[c].doc
  BY <1>1 DEF Records
<1>3. /\ call[c].op = "start" /\ call[c].image = NoImage /\ call' = [call EXCEPT ![c] = Idle]
      /\ d = "RETURN" => stage # "READY_FOR_HANDOVER"
      /\ UNCHANGED <<asset, raised, files, rows, overtaken, stray>>
  <2>1. call[c].op = "start" /\ call' = [call EXCEPT ![c] = Idle]
    BY DEF Start, End
  <2> QED
    BY <1>1, <1>2, <2>1 DEF Start, CallSound, HoldsImage, LetInSound
<1>4. CASE doc[d].state # "NONE"
  <2>1. UNCHANGED <<stage, doc>>
    BY <1>2, <1>4 DEF Start
  <2>2. \A o \in Desks : \E s \in Records :
               /\ call'[o] = s /\ CallSound(s) /\ s.image = call[o].image
               /\ s.op = "captureSignature" => call[o].op = "captureSignature"
    BY <1>1, <1>3, IdleIsSound DEF Idle
  <2> QED
    BY <1>1, <1>3, <2>1, <2>2, OnlyCalls
<1>5. CASE doc[d].state = "NONE"
  <2>1. PICK row \in DocRows :
          /\ doc' = [doc EXCEPT ![d] = row] /\ row.state = "IN_PROGRESS" /\ ~row.locked
          /\ \A p \in Roles : row.now.signed[p] = NoImage
    <3>1. PICK prepared \in IF d = "HANDOVER" THEN CheckInputs ELSE {"none"} :
                 doc' = [doc EXCEPT ![d] =
                    [NoDoc EXCEPT !.state = "IN_PROGRESS",
                       !.now = [Blank EXCEPT !.check = prepared,
                                  !.lines = [i \in Items |-> IF d = "HANDOVER" THEN "INCLUDED"
                                                             ELSE "NOT_APPLICABLE"]]]]
      BY <1>2, <1>5 DEF Start
    <3> DEFINE lines == [i \in Items |-> IF d = "HANDOVER" THEN "INCLUDED" ELSE "NOT_APPLICABLE"]
               now == [Blank EXCEPT !.check = prepared, !.lines = lines]
               row == [NoDoc EXCEPT !.state = "IN_PROGRESS", !.now = now]
    <3>2. lines \in [Items -> Conditions] /\ prepared \in Checks
      BY DEF Conditions, Checks
    <3>3. now \in Contents /\ now.signed = Blank.signed
      <4> HIDE DEF lines
      <4> QED
        BY <3>2, BlankContents DEF Contents
    <3>4. \A p \in Roles : Blank.signed[p] = NoImage
      BY DEF Blank
    <3>5. row \in DocRows /\ row.state = "IN_PROGRESS" /\ ~row.locked /\ row.now = now
      <4> HIDE DEF now
      <4> QED
        BY <3>3, BlankContents DEF DocRows, NoDoc
    <3>6. doc' = [doc EXCEPT ![d] = row]
      BY <3>1
    <3> HIDE DEF row, now
    <3> QED
      BY <3>3, <3>4, <3>5, <3>6
  <2>2. stage' = IF d = "RETURN" THEN "RETURN_INSPECTION" ELSE stage
    BY <1>2, <1>5 DEF Start
  <2>3. doc \in [Docs -> DocRows] /\ doc'[d] = row /\ \A e \in Docs \ {d} : doc'[e] = doc[e]
    BY <2>1 DEF DeskInv, DeskShape
  <2>4. /\ d = "HANDOVER" => stage = "READY_FOR_HANDOVER"
        /\ d = "RETURN" => stage = "CHECKED_OUT"
    BY <1>3, <1>5 DEF DeskInv, DocSound, StageSound, Docs, DeskShape
  <2>5. call' \in [Desks -> Records]
    BY <1>1, <1>3, IdleIsSound
  <2>6. DeskShape'
    BY <1>3, <2>1, <2>2, <2>3, <2>5 DEF DeskInv, DeskShape
  <2>7. Onward
    BY <1>3, <2>1, <2>2, <2>3 DEF Onward
  <2>8. ASSUME NEW o \in Desks
        PROVE  CallSound(call[o])'
    <3>1. PICK s \in Records : s = call'[o] /\ CallSound(s)
      BY <1>1, <1>3, <2>5, IdleIsSound
    <3>2. s.op \in SaveOps /\ doc'[s.doc].locked => doc[s.doc].locked \/ s.doc \in overtaken'
      BY <2>1, <2>3 DEF Records
    <3>3. s.op = "captureSignature" => s.image \in files' \ rows'
      BY <1>3, <3>1 DEF CallSound, HoldsImage
    <3>4. ASSUME s.op = "complete", "row" \notin s.missed
          PROVE  (stage' = stage /\ doc'[s.doc].now = doc[s.doc].now /\ s.doc # "RETURN")
      <4>1. s.doc # d
        BY <1>5, <3>1, <3>4 DEF CallSound, LetInSound
      <4>2. stage = IF s.doc = "HANDOVER" THEN "READY_FOR_HANDOVER" ELSE "RETURN_INSPECTION"
        BY <3>1, <3>4 DEF CallSound, DecisionSound
      <4> QED
        BY <2>4, <4>1, <4>2 DEF Records, Docs
    <3>5. Kept(s)
      BY <3>2, <3>3, <3>4 DEF Kept
    <3> QED
      BY <2>7, <3>1, <3>5, CallStays
  <2>9. OwnImages'
    BY <1>1, <1>3 DEF DeskInv, OwnImages, Idle
  <2>10. ASSUME NEW e \in Docs
         PROVE  DocSound(e)'
    BY <1>3, <2>1, <2>3 DEF DeskInv, DocSound
  <2>11. StageSound' /\ LeavesWholeAndSigned' /\ ReturnAccountsForAll'
    <3>1. CASE d = "HANDOVER"
      BY <1>3, <2>1, <2>2, <2>3, <2>4, <3>1
         DEF DeskInv, StageSound, LeavesWholeAndSigned, ReturnAccountsForAll, Docs
    <3>2. CASE d = "RETURN"
      BY <1>3, <2>1, <2>2, <2>3, <2>4, <3>2
         DEF DeskInv, StageSound, LeavesWholeAndSigned, ReturnAccountsForAll, Docs
    <3> QED
      BY <3>1, <3>2 DEF Docs
  <2>12. ImagesMatchSignatures'
    <3>1. NoImage \notin files /\ \A o \in Desks \ {c} : call'[o].image = call[o].image
      BY <1>1, <1>3 DEF DeskInv, DeskShape
    <3> QED
      BY <1>3, <3>1 DEF DeskInv, ImagesMatchSignatures
  <2> QED
    BY <2>6, <2>8, <2>9, <2>10, <2>11, <2>12 DEF DeskInv
<1> QED
  BY <1>4, <1>5

-----------------------------------------------------------------------------
(* Answers and signatures are committed *)

\* What a call leaves as the document: only a signature changes the signatures.
LEMMA ViewIs ==
    ASSUME DeskInv, NEW c \in Desks, call[c].op \in SaveOps
    PROVE  \E v \in Contents :
             /\ v = View(c)
             /\ \A p \in Roles : v.signed[p] \in rows \cup {NoImage} \cup
                    (IF call[c].op = "captureSignature" THEN {call[c].image} ELSE {})
<1>1. PICK k \in Records : k = call[c] /\ k.op \in SaveOps
  BY DEF DeskInv, DeskShape
<1>2. PICK now \in Contents : /\ now = doc[k.doc].now
                             /\ \A p \in Roles : now.signed[p] \in rows \cup {NoImage}
  BY DEF DeskInv, DeskShape, DocSound, DocRows, Records
<1>3. CASE k.op = "saveEquipment"
  <2> DEFINE v == [now EXCEPT !.lines = k.content.lines]
  <2>1. v = View(c)
    BY <1>1, <1>2, <1>3 DEF View
  <2>2. v \in Contents /\ v.signed = now.signed
    BY DEF Contents, Records
  <2> HIDE DEF v
  <2> QED
    BY <1>2, <2>1, <2>2
<1>4. CASE k.op = "saveChecklist"
  <2> DEFINE v == [now EXCEPT !.check = k.content.check]
  <2>1. v = View(c)
    BY <1>1, <1>2, <1>4 DEF View
  <2>2. v \in Contents /\ v.signed = now.signed
    BY DEF Contents, Records
  <2> HIDE DEF v
  <2> QED
    BY <1>2, <2>1, <2>2
<1>5. CASE k.op = "captureSignature"
  <2> DEFINE signed == [now.signed EXCEPT ![k.role] = k.image]
             v == [now EXCEPT !.signed = signed]
  <2>1. v = View(c)
    BY <1>1, <1>2, <1>5 DEF View
  <2>2. signed \in [Roles -> Images \cup {NoImage}] /\ \A p \in Roles : signed[p] \in {now.signed[p], k.image}
    BY DEF Contents, Records
  <2> HIDE DEF signed
  <2>3. v \in Contents /\ v.signed = signed
    BY <2>2 DEF Contents
  <2> HIDE DEF v
  <2> QED
    BY <1>1, <1>2, <1>5, <2>1, <2>2, <2>3
<1> QED
  BY <1>1, <1>3, <1>4, <1>5 DEF SaveOps

\* The call c commits on document d, and the completions of d notice.
LEMMA OthersNotice ==
    ASSUME DeskInv, NEW c \in Desks, NEW d \in Docs, NEW written \in BOOLEAN, Noticed(c, d, written)
    PROVE  /\ call' \in [Desks -> Records]
           /\ \A o \in Desks : \E r \in Records :
                 /\ call'[o] = r /\ CallSound(r)
                 /\ o = c => r.op = "none" /\ r.image = NoImage
                 /\ o # c => r.op = call[o].op /\ r.image = call[o].image /\ r.doc = call[o].doc
                 /\ r.op = "complete" /\ r.doc = d => (IF written THEN "row" ELSE "answers") \in r.missed
<1>1. ASSUME NEW o \in Desks
      PROVE  \E r \in Records :
                 /\ call'[o] = r /\ CallSound(r)
                 /\ o = c => r.op = "none" /\ r.image = NoImage
                 /\ o # c => r.op = call[o].op /\ r.image = call[o].image /\ r.doc = call[o].doc
                 /\ r.op = "complete" /\ r.doc = d => (IF written THEN "row" ELSE "answers") \in r.missed
  <2>1. PICK s \in Records : s = call[o] /\ CallSound(s)
    BY DEF DeskInv, DeskShape
  <2>2. CASE o = c
    <3>1. call'[o] = Idle
      BY <2>2 DEF Noticed
    <3> QED
      BY <2>2, <3>1, IdleIsSound DEF Idle
  <2>3. CASE o # c /\ ~(s.doc = d /\ s.at = "decided")
    <3>1. call'[o] = s
      BY <2>1, <2>3 DEF Noticed
    <3>2. ~(s.op = "complete" /\ s.doc = d)
      BY <2>1, <2>3 DEF CallSound, Formed, SaveOps, Records
    <3> QED
      BY <2>1, <2>3, <3>1, <3>2
  <2>4. CASE o # c /\ s.doc = d /\ s.at = "decided"
    <3> DEFINE new == IF written THEN {"row"} ELSE {"answers"}
               r == [s EXCEPT !.missed = s.missed \cup new]
    <3>1. call'[o] = r
      BY <2>1, <2>4 DEF Noticed
    <3>2. new \subseteq {"row", "answers"} /\ (IF written THEN "row" ELSE "answers") \in new
      OBVIOUS
    <3> HIDE DEF new
    <3>3. /\ r \in Records /\ r.op = s.op /\ r.doc = s.doc /\ r.at = s.at /\ r.image = s.image
          /\ r.content = s.content /\ r.missed = s.missed \cup new
      BY <3>2 DEF Records
    <3> HIDE DEF r
    <3>4. CallSound(r)
      BY <2>1, <3>3 DEF CallSound, Formed, HoldsImage, LetInSound, DecisionSound
    <3> QED
      BY <2>1, <2>4, <3>1, <3>2, <3>3, <3>4
  <2> QED
    BY <2>2, <2>3, <2>4
<1>2. call' = [o \in Desks |-> call'[o]]
  BY DEF Noticed
<1> QED
  BY <1>1, <1>2

\* All that a commit of answers or a signature keeps, but for the images.
LEMMA CommitsKeep ==
    ASSUME DeskInv, NEW c \in Desks, NEW k \in Records, k = call[c], k.at = "refreshed",
           doc' = Written(c), NEW written \in BOOLEAN, Noticed(c, k.doc, written),
           UNCHANGED <<stage, asset, raised, overtaken>>,
           rows' = rows \cup (IF k.op = "captureSignature" THEN {k.image} ELSE {}),
           files' \subseteq files, files \ {k.image} \subseteq files'
    PROVE  /\ DeskShape' /\ (\A o \in Desks : CallSound(call[o])') /\ OwnImages'
           /\ (\A d \in Docs : DocSound(d)') /\ StageSound'
           /\ LeavesWholeAndSigned' /\ ReturnAccountsForAll'
<1>1. k.op \in SaveOps /\ CallSound(k) /\ k.doc \in Docs
  BY DEF DeskInv, CallSound, Formed, Records
<1>2. PICK v \in Contents :
             /\ v = View(c)
             /\ \A p \in Roles : v.signed[p] \in rows \cup {NoImage} \cup
                    (IF k.op = "captureSignature" THEN {k.image} ELSE {})
  BY <1>1, ViewIs
<1>3. PICK row \in DocRows :
             /\ doc' = [doc EXCEPT ![k.doc] = row] /\ row.now = v /\ row.state # "NONE"
             /\ row.locked = doc[k.doc].locked /\ row.frozen = doc[k.doc].frozen
  <2>1. PICK old \in DocRows : old = doc[k.doc] /\ old.state # "NONE"
    BY <1>1 DEF DeskInv, DeskShape, CallSound, LetInSound
  <2> DEFINE state == IF k.next = "keep" THEN old.state ELSE k.next
             row == [old EXCEPT !.now = v, !.state = state]
  <2>2. doc' = [doc EXCEPT ![k.doc] = row]
    BY <1>2, <2>1 DEF Written
  <2>3. state \in {"IN_PROGRESS", "PENDING_SIGNATURES", "COMPLETED"}
    BY <2>1 DEF Records, DocRows
  <2> HIDE DEF state
  <2>4. /\ row \in DocRows /\ row.now = v /\ row.state = state
        /\ row.locked = old.locked /\ row.frozen = old.frozen
    BY <2>3 DEF DocRows
  <2> HIDE DEF row
  <2> QED
    BY <2>1, <2>2, <2>3, <2>4
<1>4. /\ doc' \in [Docs -> DocRows] /\ doc'[k.doc] = row /\ \A d \in Docs \ {k.doc} : doc'[d] = doc[d]
      /\ \A d \in Docs : doc'[d].locked = doc[d].locked /\ doc'[d].frozen = doc[d].frozen
      /\ \A d \in Docs : doc'[d].state = "NONE" <=> doc[d].state = "NONE"
  BY <1>1, <1>3 DEF DeskInv, DeskShape, CallSound, LetInSound
<1>5. /\ call' \in [Desks -> Records]
      /\ \A o \in Desks : \E r \in Records :
            /\ call'[o] = r /\ CallSound(r)
            /\ o = c => r.op = "none" /\ r.image = NoImage
            /\ o # c => r.op = call[o].op /\ r.image = call[o].image /\ r.doc = call[o].doc
            /\ r.op = "complete" /\ r.doc = k.doc => (IF written THEN "row" ELSE "answers") \in r.missed
  BY <1>1, OthersNotice
<1>6. DeskShape'
  <2>1. k.op = "captureSignature" => k.image # NoImage
    BY <1>1 DEF CallSound, HoldsImage, DeskInv, DeskShape
  <2> QED
    BY <1>4, <1>5, <2>1 DEF DeskInv, DeskShape
<1>7. Onward
  BY <1>4 DEF Onward
<1>8. ASSUME NEW o \in Desks
      PROVE  CallSound(call[o])'
  <2>1. PICK r \in Records :
            /\ call'[o] = r /\ CallSound(r)
            /\ o = c => r.op = "none" /\ r.image = NoImage
            /\ o # c => r.op = call[o].op /\ r.image = call[o].image /\ r.doc = call[o].doc
            /\ r.op = "complete" /\ r.doc = k.doc => (IF written THEN "row" ELSE "answers") \in r.missed
    BY <1>5
  <2>2. r.doc \in Docs
    BY DEF Records
  <2>3. r.op = "captureSignature" => r.image \in files' \ rows'
    <3> SUFFICES ASSUME r.op = "captureSignature"
                 PROVE  r.image \in files' \ rows'
      OBVIOUS
    <3>1. r.image \in files \ rows
      BY <2>1 DEF CallSound, HoldsImage
    <3>2. o # c /\ call[o].op = "captureSignature" /\ r.image = call[o].image
      BY <2>1
    <3>3. r.image # k.image
      <4>1. CASE k.op = "captureSignature"
        BY <3>2, <4>1 DEF DeskInv, OwnImages
      <4>2. CASE k.op # "captureSignature"
        BY <1>1, <3>1, <4>2 DEF CallSound, HoldsImage, DeskInv, DeskShape
      <4> QED
        BY <4>1, <4>2
    <3> QED
      BY <3>1, <3>3
  <2>4. r.op = "complete" /\ "row" \notin r.missed /\ "answers" \notin r.missed => r.doc # k.doc
    BY <2>1
  <2>5. Kept(r)
    BY <1>4, <2>2, <2>3, <2>4 DEF Kept, Docs
  <2> QED
    BY <1>7, <2>1, <2>5, CallStays
<1>9. OwnImages'
  BY <1>5 DEF DeskInv, OwnImages
<1>10. ASSUME NEW d \in Docs
       PROVE  DocSound(d)'
  <2>1. CASE d = k.doc
    <3>1. row.locked => d \in overtaken
      BY <1>1, <1>3, <2>1 DEF CallSound, LetInSound
    <3> QED
      BY <1>2, <1>3, <1>4, <2>1, <3>1 DEF DocSound
  <2>2. CASE d # k.doc
    BY <1>4, <2>2 DEF DeskInv, DocSound
  <2> QED
    BY <2>1, <2>2
<1>11. StageSound'
  BY <1>4 DEF DeskInv, StageSound, Docs
<1>12. LeavesWholeAndSigned'
  BY <1>4 DEF DeskInv, LeavesWholeAndSigned, Docs
<1>13. ReturnAccountsForAll'
  BY <1>4 DEF DeskInv, ReturnAccountsForAll, Docs
<1> QED
  BY <1>6, <1>8, <1>9, <1>10, <1>11, <1>12, <1>13

LEMMA SavesCommit ==
    ASSUME DeskInv, NEW c \in Desks, CommitSave(c)
    PROVE  DeskInv'
<1>1. PICK k \in Records : k = call[c] /\ k.at = "refreshed" /\ k.op # "captureSignature" /\ CallSound(k)
  BY DEF DeskInv, DeskShape, CommitSave
<1>2. PICK written \in BOOLEAN : written <=> k.op = "saveEquipment" \/ k.next # "keep"
  OBVIOUS
<1>3. /\ doc' = Written(c) /\ Noticed(c, k.doc, written)
      /\ UNCHANGED <<stage, asset, raised, files, rows, overtaken, stray>>
  <2>1. written = (k.op = "saveEquipment" \/ k.next # "keep")
    BY <1>2
  <2> QED
    BY <1>1, <2>1 DEF CommitSave
<1>4. k.doc \in Docs /\ k.image = NoImage
  BY <1>1 DEF Records, CallSound, HoldsImage
<1>5. /\ DeskShape' /\ (\A o \in Desks : CallSound(call[o])') /\ OwnImages'
      /\ (\A d \in Docs : DocSound(d)') /\ StageSound'
      /\ LeavesWholeAndSigned' /\ ReturnAccountsForAll'
  BY <1>1, <1>3, CommitsKeep
<1>6. ImagesMatchSignatures'
  <2>1. \A o \in Desks \ {c} : call'[o].image = call[o].image
    BY <1>3, <1>4, OthersNotice
  <2>2. NoImage \notin files /\ call[c].image = NoImage
    BY <1>1, <1>4 DEF DeskInv, DeskShape
  <2> QED
    BY <1>3, <2>1, <2>2 DEF DeskInv, ImagesMatchSignatures
<1> QED
  BY <1>5, <1>6 DEF DeskInv

LEMMA SignaturesCommit ==
    ASSUME DeskInv, NEW c \in Desks, CommitSignature(c)
    PROVE  DeskInv'
<1>1. PICK k \in Records : k = call[c] /\ k.at = "refreshed" /\ k.op = "captureSignature" /\ CallSound(k)
  BY DEF DeskInv, DeskShape, CommitSignature
<1>2. PICK written \in BOOLEAN : written <=> k.next # "keep"
  OBVIOUS
<1>3. /\ doc' = Written(c) /\ Noticed(c, k.doc, written) /\ rows' = rows \cup {k.image}
      /\ \/ UNCHANGED <<files, stray>>
         \/ files' = files \ {k.image} /\ stray' = stray \cup {k.image}
      /\ UNCHANGED <<stage, asset, raised, overtaken>>
  <2>1. written = (k.next # "keep")
    BY <1>2
  <2> QED
    BY <1>1, <2>1 DEF CommitSignature
<1>4. k.doc \in Docs /\ k.image \in files \ rows
  BY <1>1 DEF Records, CallSound, HoldsImage
<1>5. /\ DeskShape' /\ (\A o \in Desks : CallSound(call[o])') /\ OwnImages'
      /\ (\A d \in Docs : DocSound(d)') /\ StageSound'
      /\ LeavesWholeAndSigned' /\ ReturnAccountsForAll'
  <2>1. rows' = rows \cup (IF k.op = "captureSignature" THEN {k.image} ELSE {})
    BY <1>1, <1>3
  <2> QED
    BY <1>1, <1>3, <2>1, CommitsKeep
<1>6. ImagesMatchSignatures'
  <2>1. \A o \in Desks \ {c} : call'[o].image = call[o].image
    BY <1>3, <1>4, OthersNotice
  <2> QED
    BY <1>1, <1>3, <1>4, <2>1 DEF DeskInv, ImagesMatchSignatures
<1> QED
  BY <1>5, <1>6 DEF DeskInv

LEMMA CallsAbort ==
    ASSUME DeskInv, NEW c \in Desks, Abort(c)
    PROVE  DeskInv'
<1>1. call \in [Desks -> Records] /\ \A o \in Desks : CallSound(call[o])
  BY DEF DeskInv, DeskShape
<1>2. PICK k \in Records : k = call[c] /\ CallSound(k)
  BY <1>1
<1>3. /\ call' = [call EXCEPT ![c] = Idle]
      /\ \/ files' = files \ {k.image} /\ stray' = stray
         \/ k.image # NoImage /\ stray' = stray \cup {k.image} /\ files' = files
      /\ UNCHANGED <<stage, doc, asset, raised, rows, overtaken>>
  BY <1>2 DEF Abort, End
<1>4. k.image \notin rows /\ NoImage \notin files \cup rows
  BY <1>2 DEF CallSound, HoldsImage, DeskInv, DeskShape
<1>5. call' \in [Desks -> Records]
  BY <1>1, <1>3, IdleIsSound
<1>6. DeskShape'
  BY <1>3, <1>5 DEF DeskInv, DeskShape
<1>7. ASSUME NEW o \in Desks
      PROVE  CallSound(call[o])'
  <2>1. PICK r \in Records : /\ r = call'[o] /\ CallSound(r)
                             /\ r.op = "captureSignature" => o # c /\ r = call[o]
    BY <1>1, <1>3, <1>5, IdleIsSound DEF Idle
  <2>2. r.op = "captureSignature" => r.image \in files' \ rows'
    <3> SUFFICES ASSUME r.op = "captureSignature"
                 PROVE  r.image \in files' \ rows'
      OBVIOUS
    <3>1. r.image \in files \ rows
      BY <2>1 DEF CallSound, HoldsImage
    <3>2. r.image # k.image
      <4>1. CASE k.op = "captureSignature"
        BY <1>2, <2>1, <4>1 DEF DeskInv, OwnImages
      <4>2. CASE k.op # "captureSignature"
        BY <1>2, <1>4, <3>1, <4>2 DEF CallSound, HoldsImage
      <4> QED
        BY <4>1, <4>2
    <3> QED
      BY <1>3, <3>1, <3>2
  <2>3. Onward /\ Kept(r)
    BY <1>3, <2>2 DEF Onward, Kept
  <2> QED
    BY <2>1, <2>3, CallStays
<1>8. OwnImages'
  BY <1>1, <1>3 DEF DeskInv, OwnImages, Idle
<1>9. (\A d \in Docs : DocSound(d)') /\ StageSound'
  BY <1>3 DEF DeskInv, DocSound, StageSound
<1>10. LeavesWholeAndSigned' /\ ReturnAccountsForAll'
  BY <1>3 DEF DeskInv, LeavesWholeAndSigned, ReturnAccountsForAll
<1>11. ImagesMatchSignatures'
  <2>1. \A o \in Desks \ {c} : call'[o].image = call[o].image
    BY <1>1, <1>3
  <2> QED
    BY <1>2, <1>3, <1>4, <2>1 DEF DeskInv, ImagesMatchSignatures
<1> QED
  BY <1>6, <1>7, <1>8, <1>9, <1>10, <1>11 DEF DeskInv

-----------------------------------------------------------------------------
(* Completions *)

LEMMA DocumentsComplete ==
    ASSUME DeskInv, NEW c \in Desks, Complete(c)
    PROVE  DeskInv'
<1>1. PICK k \in Records : /\ k = call[c] /\ CallSound(k) /\ k.op = "complete"
                           /\ "row" \notin k.missed
  BY DEF DeskInv, DeskShape, Complete, Completable, CallSound, Formed
<1>2. PICK d \in Docs : d = k.doc
  BY DEF Records
<1>3. PICK content \in Contents : content = k.content
  BY DEF Records
<1>4. /\ stage = IF d = "HANDOVER" THEN "READY_FOR_HANDOVER" ELSE "RETURN_INSPECTION"
      /\ "answers" \notin k.missed => content = doc[d].now
      /\ \A p \in Roles : content.signed[p] \in rows \cup {NoImage}
      /\ Signed(d, content)
      /\ d = "HANDOVER" => EquipmentVerified(content.lines) /\ content.check = "PASS"
      /\ d = "RETURN" /\ "HANDOVER" \notin overtaken =>
            \A i \in Items : doc["HANDOVER"].frozen.lines[i] = "INCLUDED"
                => content.lines[i] # "NOT_APPLICABLE"
      /\ doc[d].state # "NONE" /\ k.image = NoImage
  BY <1>1, <1>2, <1>3 DEF CallSound, DecisionSound, LetInSound, HoldsImage
<1>5. /\ doc' = [doc EXCEPT ![d].state = "COMPLETED", ![d].locked = TRUE, ![d].frozen = content]
      /\ stage' = IF d = "HANDOVER" THEN "CHECKED_OUT" ELSE "COMPLETED"
      /\ asset' = [i \in Items |-> StatusAfter(d, content.lines[i], asset[i])]
      /\ raised' = [i \in Items |-> raised[i] + IF i \in IssuesFor(d, content.lines) THEN 1 ELSE 0]
      /\ Noticed(c, d, TRUE)
      /\ overtaken' = IF "answers" \in k.missed \/ \E o \in Desks : LetIn(o, d)
                      THEN overtaken \cup {d} ELSE overtaken
      /\ UNCHANGED <<files, rows, stray>>
  BY <1>1, <1>2, <1>3 DEF Complete
<1>6. content.lines \in [Items -> Conditions]
  BY DEF Contents
<1>7. PICK row \in DocRows :
          /\ doc' = [doc EXCEPT ![d] = row] /\ row.state = "COMPLETED" /\ row.locked
          /\ row.frozen = content /\ row.now = doc[d].now
  <2>1. PICK old \in DocRows : old = doc[d]
    BY DEF DeskInv, DeskShape
  <2> DEFINE row == [old EXCEPT !.state = "COMPLETED", !.locked = TRUE, !.frozen = content]
  <2>2. doc' = [doc EXCEPT ![d] = row]
    BY <1>5, <2>1
  <2>3. /\ row \in DocRows /\ row.state = "COMPLETED" /\ row.locked
        /\ row.frozen = content /\ row.now = old.now
    BY DEF DocRows
  <2> HIDE DEF row
  <2> QED
    BY <2>1, <2>2, <2>3
<1>8. doc' \in [Docs -> DocRows] /\ doc'[d] = row /\ \A e \in Docs \ {d} : doc'[e] = doc[e]
  BY <1>7 DEF DeskInv, DeskShape
<1>9. /\ call' \in [Desks -> Records]
      /\ \A o \in Desks : \E r \in Records :
            /\ call'[o] = r /\ CallSound(r)
            /\ o = c => r.op = "none" /\ r.image = NoImage
            /\ o # c => r.op = call[o].op /\ r.image = call[o].image /\ r.doc = call[o].doc
            /\ r.op = "complete" /\ r.doc = d => "row" \in r.missed
  <2>1. PICK written \in BOOLEAN : written = TRUE /\ Noticed(c, d, written)
    BY <1>5
  <2>2. /\ call' \in [Desks -> Records]
        /\ \A o \in Desks : \E r \in Records :
              /\ call'[o] = r /\ CallSound(r)
              /\ o = c => r.op = "none" /\ r.image = NoImage
              /\ o # c => r.op = call[o].op /\ r.image = call[o].image /\ r.doc = call[o].doc
              /\ r.op = "complete" /\ r.doc = d => (IF written THEN "row" ELSE "answers") \in r.missed
    <3>1. Noticed(c, d, written)
      BY <2>1
    <3> QED
      BY <3>1, OthersNotice
  <2> QED
    BY <2>1, <2>2
<1>10. /\ asset' \in [Items -> {"AVAILABLE", "CHECKED_OUT", "MISSING", "DAMAGED"}]
       /\ raised' \in [Items -> Nat]
  <2>1. asset \in [Items -> {"AVAILABLE", "CHECKED_OUT", "MISSING", "DAMAGED"}] /\ raised \in [Items -> Nat]
    BY DEF DeskInv, DeskShape
  <2>2. \A i \in Items : StatusAfter(d, content.lines[i], asset[i])
                            \in {"AVAILABLE", "CHECKED_OUT", "MISSING", "DAMAGED"}
    BY <1>6, <2>1 DEF StatusAfter, Problems
  <2> QED
    BY <1>5, <2>1, <2>2
<1>11. DeskShape'
  BY <1>5, <1>8, <1>9, <1>10 DEF DeskInv, DeskShape
<1>12. Onward
  BY <1>5, <1>7, <1>8 DEF Onward
<1>13. ASSUME NEW o \in Desks
       PROVE  CallSound(call[o])'
  <2>1. PICK r \in Records :
            /\ call'[o] = r /\ CallSound(r)
            /\ o = c => r.op = "none" /\ r.image = NoImage
            /\ o # c => r.op = call[o].op /\ r.image = call[o].image /\ r.doc = call[o].doc
            /\ r.op = "complete" /\ r.doc = d => "row" \in r.missed
    BY <1>9
  <2>2. r.op \in SaveOps /\ doc'[r.doc].locked => doc[r.doc].locked \/ r.doc \in overtaken'
    <3>1. CASE r.doc # d
      BY <1>8, <3>1 DEF Records
    <3>2. CASE r.doc = d /\ r.op \in SaveOps
      <4>1. o # c /\ call[o].op = r.op /\ call[o].doc = d /\ call[o] \in Records /\ CallSound(call[o])
        BY <2>1, <3>2 DEF SaveOps, DeskInv, DeskShape
      <4>2. LetIn(o, d)
        BY <3>2, <4>1 DEF LetIn, CallSound, Formed, SaveOps, Records
      <4> QED
        BY <1>5, <3>2, <4>2
    <3> QED
      BY <3>1, <3>2
  <2>3. r.op = "captureSignature" => r.image \in files' \ rows'
    BY <1>5, <2>1 DEF CallSound, HoldsImage
  <2>4. ~(r.op = "complete" /\ "row" \notin r.missed)
    <3> SUFFICES ASSUME r.op = "complete", "row" \notin r.missed
                 PROVE  FALSE
      OBVIOUS
    <3>1. r.doc # d /\ stage = IF r.doc = "HANDOVER" THEN "READY_FOR_HANDOVER" ELSE "RETURN_INSPECTION"
      BY <2>1 DEF CallSound, DecisionSound
    <3> QED
      BY <1>4, <3>1 DEF Records, Docs
  <2>5. Kept(r)
    BY <2>2, <2>3, <2>4 DEF Kept
  <2> QED
    BY <1>12, <2>1, <2>5, CallStays
<1>14. OwnImages'
  BY <1>9 DEF DeskInv, OwnImages
<1>15. ASSUME NEW e \in Docs
       PROVE  DocSound(e)'
  <2>1. CASE e = d
    <3>1. d \notin overtaken' => content = doc[d].now
      BY <1>4, <1>5
    <3>2. \A p \in Roles : row.now.signed[p] \in rows \cup {NoImage}
      BY <1>7 DEF DeskInv, DocSound
    <3> QED
      BY <1>5, <1>7, <1>8, <2>1, <3>1, <3>2 DEF DocSound
  <2>2. CASE e # d
    BY <1>5, <1>8, <2>2 DEF DeskInv, DocSound
  <2> QED
    BY <2>1, <2>2
<1>16. ImagesMatchSignatures'
  <2>1. NoImage \notin files /\ call[c].image = NoImage /\ \A o \in Desks \ {c} : call'[o].image = call[o].image
    BY <1>1, <1>4, <1>9 DEF DeskInv, DeskShape
  <2> QED
    BY <1>5, <2>1 DEF DeskInv, ImagesMatchSignatures
<1>17. CASE d = "HANDOVER"
  <2>1. /\ stage = "READY_FOR_HANDOVER" /\ stage' = "CHECKED_OUT"
        /\ \A i \in Items : asset[i] = "AVAILABLE" /\ raised[i] = 0
    BY <1>4, <1>5, <1>17 DEF DeskInv, StageSound
  <2>2. \A i \in Items : raised'[i] = 0
    BY <1>5, <1>17, <2>1 DEF IssuesFor
  <2>3. \A i \in Items : asset'[i] = "CHECKED_OUT" <=> content.lines[i] = "INCLUDED"
    BY <1>5, <1>6, <1>17, <2>1 DEF StatusAfter, Problems
  <2>4. \A p \in Roles : content.signed[p] \in rows
    BY <1>4, <1>17 DEF Signed, Signers
  <2>5. StageSound'
    BY <1>7, <1>8, <1>17, <2>1, <2>2 DEF DeskInv, StageSound, Docs
  <2>6. LeavesWholeAndSigned'
    BY <1>4, <1>5, <1>7, <1>8, <1>17, <2>3, <2>4 DEF LeavesWholeAndSigned, EquipmentVerified
  <2>7. ReturnAccountsForAll'
    BY <2>1, <2>2 DEF ReturnAccountsForAll
  <2> QED
    BY <1>11, <1>13, <1>14, <1>15, <1>16, <2>5, <2>6, <2>7 DEF DeskInv
<1>18. CASE d = "RETURN"
  <2>1. /\ stage = "RETURN_INSPECTION" /\ stage' = "COMPLETED" /\ doc["HANDOVER"].locked
        /\ \A i \in Items : raised[i] = 0
    BY <1>4, <1>5, <1>18 DEF DeskInv, StageSound
  <2>2. StageSound'
    BY <1>7, <1>8, <1>18, <2>1 DEF StageSound, Docs
  <2>3. LeavesWholeAndSigned'
    BY <2>1 DEF LeavesWholeAndSigned
  <2>4. \A i \in Items : raised'[i] = IF content.lines[i] \in Problems THEN 1 ELSE 0
    BY <1>5, <1>18, <2>1 DEF IssuesFor
  <2>5. ASSUME "HANDOVER" \notin overtaken', NEW i \in Items
        PROVE  asset'[i] # "CHECKED_OUT"
    <3>1. "HANDOVER" \notin overtaken
      BY <1>12, <2>5 DEF Onward
    <3>2. asset[i] = "CHECKED_OUT" => content.lines[i] # "NOT_APPLICABLE"
      BY <1>4, <1>18, <2>1, <3>1 DEF DeskInv, LeavesWholeAndSigned
    <3>3. asset'[i] = StatusAfter("RETURN", content.lines[i], asset[i])
      BY <1>5, <1>18
    <3> QED
      BY <1>6, <3>2, <3>3 DEF StatusAfter, Problems, Conditions
  <2>6. ReturnAccountsForAll'
    BY <1>7, <1>8, <1>18, <2>1, <2>4, <2>5 DEF ReturnAccountsForAll
  <2> QED
    BY <1>11, <1>13, <1>14, <1>15, <1>16, <2>2, <2>3, <2>6 DEF DeskInv
<1> QED
  BY <1>11, <1>13, <1>14, <1>15, <1>17, <1>18, <1>18 DEF DeskInv, Docs

-----------------------------------------------------------------------------
(* Every step *)

LEMMA DeskInvStarts == DeskInit => DeskInv
<1> SUFFICES ASSUME DeskInit
             PROVE  DeskInv
  OBVIOUS
<1>1. NoDoc \in DocRows /\ NoDoc.state = "NONE" /\ ~NoDoc.locked /\ NoDoc.now = Blank
  BY BlankContents DEF NoDoc, DocRows
<1>2. \A d \in Docs : doc[d] = NoDoc
  BY DEF DeskInit
<1>3. \A c \in Desks : call[c] = Idle
  BY DEF DeskInit
<1>4. DeskShape
  BY <1>1, IdleIsSound DEF DeskInit, DeskShape
<1>5. \A c \in Desks : CallSound(call[c])
  BY <1>3, IdleIsSound
<1>6. OwnImages
  BY <1>3 DEF OwnImages, Idle
<1>7. \A d \in Docs : DocSound(d)
  BY <1>1, <1>2 DEF DocSound, Blank
<1>8. StageSound
  BY <1>1, <1>2 DEF StageSound, DeskInit, Docs
<1>9. LeavesWholeAndSigned /\ ReturnAccountsForAll /\ ImagesMatchSignatures
  BY DEF DeskInit, LeavesWholeAndSigned, ReturnAccountsForAll, ImagesMatchSignatures
<1> QED
  BY <1>4, <1>5, <1>6, <1>7, <1>8, <1>9 DEF DeskInv

LEMMA NothingHappens ==
    ASSUME DeskInv, UNCHANGED <<stage, doc, asset, raised, files, rows, call, overtaken, stray>>
    PROVE  DeskInv'
<1>1. call \in [Desks -> Records] /\ \A c \in Desks : CallSound(call[c])
  BY DEF DeskInv, DeskShape
<1> QED
  BY <1>1, OnlyCalls

LEMMA DeskInvStays == DeskInv /\ [DeskNext]_deskVars => DeskInv'
<1> SUFFICES ASSUME DeskInv, [DeskNext]_deskVars
             PROVE  DeskInv'
  OBVIOUS
<1>1. CASE UNCHANGED deskVars
  BY <1>1, NothingHappens DEF deskVars
<1>2. CASE BecomeUnfit
  BY <1>2, NothingHappens DEF BecomeUnfit
<1>3. ASSUME NEW c \in Desks, NEW d \in Docs,
             CheckStart(c, d) \/ CheckSave(c, d) \/ Decide(c, d) \/ \E r \in Roles : CheckCapture(c, d, r)
      PROVE  DeskInv'
  BY <1>3, StartsBegin, SavesBegin, CompletionsBegin, CapturesBegin
<1>4. ASSUME NEW c \in Desks, Start(c) \/ Refresh(c) \/ CommitSave(c)
      PROVE  DeskInv'
  BY <1>4, DocumentsStart, CallsRefresh, SavesCommit
<1>5. ASSUME NEW c \in Desks, CommitSignature(c) \/ Complete(c) \/ Abort(c)
      PROVE  DeskInv'
  BY <1>5, SignaturesCommit, DocumentsComplete, CallsAbort
<1> QED
  BY <1>1, <1>2, <1>3, <1>4, <1>5 DEF DeskNext

\* Whatever calls interleave at the desk, what each of them was told by its
\* checks stays as true as it needs: the invariant of handover.service.ts and
\* returns.service.ts.
THEOREM DeskIsSound == DeskSpec => []DeskInv
<1>1. DeskInit => DeskInv
  BY DeskInvStarts
<1>2. DeskInv /\ [DeskNext]_deskVars => DeskInv'
  BY DeskInvStays
<1> QED
  BY <1>1, <1>2, PTL DEF DeskSpec

\* A completed handover or return is what was signed, unless a save that had
\* passed requireOpenHandover or requireOpenReturn commits after it.
THEOREM DocumentsStaySettled == DeskSpec => []SettledAsSigned
<1>1. DeskInv => SettledAsSigned
  BY DEF DeskInv, DocSound, SettledAsSigned
<1> QED
  BY <1>1, DeskIsSound, PTL

\* completeHandover lets nothing out but what it froze: the required items
\* included, the required check passed, both signatures taken.
THEOREM HandoversAreWhole == DeskSpec => []LeavesWholeAndSigned
<1>1. DeskInv => LeavesWholeAndSigned
  BY DEF DeskInv
<1> QED
  BY <1>1, DeskIsSound, PTL

\* completeReturn raises one issue for each problem and leaves no item out,
\* unless the handover it reads was written over after it was signed.
THEOREM ReturnsAccountForAll == DeskSpec => []ReturnAccountsForAll
<1>1. DeskInv => ReturnAccountsForAll
  BY DEF DeskInv
<1> QED
  BY <1>1, DeskIsSound, PTL

\* Storage and the Signature rows agree, captures that died apart: the order
\* captureSignature stores, commits and removes in.
THEOREM SignaturesKeepTheirImages == DeskSpec => []ImagesMatchSignatures
<1>1. DeskInv => ImagesMatchSignatures
  BY DEF DeskInv
<1> QED
  BY <1>1, DeskIsSound, PTL

-----------------------------------------------------------------------------
(* The pages of the documents *)

Values == {Null, Absent, "expected", "fewer", "noted", "GOOD", "DAMAGED", "INCLUDED", "MISSING",
           "NOT_APPLICABLE", "PASS", "FAIL"}

Worlds == [status : {"RESERVED", "READY_FOR_HANDOVER", "CHECKED_OUT", "RETURN_INSPECTION", "COMPLETED"},
           obstacle : {"none", "kit", "editor"}, state : {"NONE", "OPEN", "COMPLETED"},
           say : [Fields -> Values], signed : [Signatories -> {"none", "drawn"}]]

Pads == [resign : BOOLEAN, hasInk : BOOLEAN, inked : BOOLEAN]

Pages == [open : BOOLEAN, read : Worlds \cup {Null}, form : [Fields -> Values], typed : SUBSET Fields,
          amending : BOOLEAN, pad : [Signatories -> Pads], confirmed : BOOLEAN]

\* The booking has come as far as its document.
WorldSound(w) ==
    IF paper = "HANDOVER"
    THEN /\ w.status \in {"RESERVED", "READY_FOR_HANDOVER", "CHECKED_OUT"}
         /\ w.status = "CHECKED_OUT" <=> w.state = "COMPLETED"
    ELSE /\ w.status = CASE w.state = "NONE" -> "CHECKED_OUT"
                         [] w.state = "OPEN" -> "RETURN_INSPECTION"
                         [] OTHER            -> "COMPLETED"
         /\ w.obstacle = "none"

\* What a page does not let anybody answer has not been answered.
Untouched(say) ==
    \A f \in LineFields \ EquipmentControls :
        say[f] = IF f[2] = "status" THEN "NOT_APPLICABLE" ELSE Null

\* Fields that were not set show what was read; steps that are not shown have
\* no state; and a pad that can be saved counts as inked only with a drawing.
PageSound(p, w) ==
    /\ p.typed \subseteq EquipmentControls \cup CheckFields
    /\ \A f \in Fields \ p.typed : p.form[f] = Default(f, p.read)
    /\ \A r \in Signatories :
         /\ p.read.signed[r] # "none" => w.signed[r] # "none"
         /\ ~StepsShown(p.read) => p.pad[r] = NoPad
         /\ PadOpen(r, p) /\ p.pad[r].hasInk => p.pad[r].inked

\* A page that is closed, or open on a document that is w by now.
Followed(p, w) == p \in Pages /\ (p = Closed \/ (p.open /\ p.read \in Worlds /\ PageSound(p, w)))

DeskPagesInv ==
    /\ paper \in Papers
    /\ world \in Worlds /\ WorldSound(world) /\ Untouched(world.say)
    /\ Followed(page, world)

\* Where the document may go from here: no signature is taken back.
MayBecome(w) ==
    /\ w \in Worlds /\ WorldSound(w) /\ Untouched(w.say)
    /\ \A r \in Signatories : world.signed[r] # "none" => w.signed[r] # "none"

LEMMA DefaultsAreValues ==
    ASSUME NEW w \in Worlds
    PROVE  FormOf(w) \in [Fields -> Values] /\ \A f \in Fields : FormOf(w)[f] = Default(f, w)
BY DEF FormOf, Default, Worlds, Values

LEMMA PagesMove ==
    ASSUME UNCHANGED <<paper, went>>, paper \in Papers,
           NEW w, world' = w, MayBecome(w), NEW p, page' = p, Followed(p, w)
    PROVE  DeskPagesInv'
<1>1. paper' \in Papers /\ world' \in Worlds
  BY DEF MayBecome
<1>2. WorldSound(world)'
  BY DEF MayBecome, WorldSound
<1>3. EquipmentControls' = EquipmentControls
  BY DEF EquipmentControls, WasHandedOver
<1>4. Untouched(world.say)'
  BY <1>3 DEF MayBecome, Untouched
<1>5. ASSUME PageSound(p, w)
      PROVE  PageSound(page, world)'
  <2>1. \A f \in Fields : Default(f, p.read)' = Default(f, p.read)
    BY DEF Default
  <2>2. (StepsShown(p.read) <=> StepsShown(p.read)') /\ (FormsOffered(p.read) <=> FormsOffered(p.read)')
    BY DEF StepsShown, FormsOffered, CanPerform, Completed
  <2>3. \A r \in Signatories : PadOpen(r, p) <=> PadOpen(r, p)'
    BY <2>2 DEF PadOpen
  <2> QED
    BY <1>3, <1>5, <2>1, <2>2, <2>3 DEF PageSound
<1> QED
  BY <1>1, <1>2, <1>4, <1>5 DEF DeskPagesInv, Followed

LEMMA ClosedIsAPage == Closed \in Pages /\ \A w : Followed(Closed, w)
<1>1. NoPad \in Pads /\ [f \in Fields |-> Absent] \in [Fields -> Values]
  BY DEF NoPad, Pads, Values
<1>2. Closed \in Pages
  BY <1>1 DEF Closed, Pages
<1> QED
  BY <1>2 DEF Followed

LEMMA RenderedIsSound ==
    ASSUME DeskPagesInv, NEW w, MayBecome(w), NEW p, Followed(p, world)
    PROVE  LET q == Rendered(p, w) IN
           Followed(q, w) /\ q.open /\ q.read = w /\ q.typed = {} /\ q.form = FormOf(w)
<1>1. /\ w \in Worlds /\ FormOf(w) \in [Fields -> Values]
      /\ \A f \in Fields : FormOf(w)[f] = Default(f, w)
  BY DefaultsAreValues DEF MayBecome
<1>2. NoPad \in Pads /\ ~NoPad.hasInk
  BY DEF NoPad, Pads
<1>3. CASE ~StepsShown(w)
  <2> DEFINE q == [Closed EXCEPT !.open = TRUE, !.read = w, !.form = FormOf(w)]
  <2>1. Rendered(p, w) = q
    BY <1>3 DEF Rendered
  <2>2. /\ q \in Pages /\ q.open /\ q.read = w /\ q.form = FormOf(w) /\ q.typed = {}
        /\ \A r \in Signatories : q.pad[r] = NoPad
    BY <1>1, <1>2 DEF Closed, Pages
  <2> HIDE DEF q
  <2>3. PageSound(q, w)
    BY <1>1, <1>2, <2>2 DEF PageSound
  <2> QED
    BY <1>1, <2>1, <2>2, <2>3 DEF Followed
<1>4. CASE StepsShown(w)
  <2>1. p \in Pages /\ p.pad \in [Signatories -> Pads]
    BY DEF Followed, Pages
  <2> DEFINE q == [p EXCEPT !.open = TRUE, !.read = w, !.form = FormOf(w), !.typed = {}]
             pads == [r \in Signatories |-> [p.pad[r] EXCEPT !.inked = p.pad[r].inked /\ PadOpen(r, q)]]
             s == [q EXCEPT !.pad = pads]
  <2>2. Rendered(p, w) = s
    BY <1>4 DEF Rendered
  <2>3. q \in Pages /\ q.open /\ q.read = w /\ q.form = FormOf(w) /\ q.typed = {} /\ q.pad = p.pad
    BY <1>1, <2>1 DEF Pages
  <2> HIDE DEF q
  <2>5. ASSUME NEW r \in Signatories
        PROVE  /\ pads[r] \in Pads /\ pads[r].resign = p.pad[r].resign
               /\ pads[r].hasInk => pads[r].inked \/ ~PadOpen(r, q)
    <3>1. PICK pad \in Pads : pad = p.pad[r]
      BY <2>1
    <3>2. pads[r] = [resign |-> pad.resign, hasInk |-> pad.hasInk, inked |-> pad.inked /\ PadOpen(r, q)]
      BY <3>1 DEF Pads
    <3>3. PadOpen(r, q) /\ pad.hasInk => pad.inked
      <4>1. CASE p = Closed
        BY <3>1, <4>1 DEF Closed, NoPad
      <4>2. CASE p # Closed /\ ~StepsShown(p.read)
        BY <1>2, <3>1, <4>2 DEF Followed, PageSound
      <4>3. ASSUME p # Closed, StepsShown(p.read), PadOpen(r, q), pad.hasInk
            PROVE  pad.inked
        <5>1. PageSound(p, world)
          BY <4>3 DEF Followed
        <5>2. PadOpen(r, p)
          BY <2>3, <4>3, <5>1 DEF PageSound, PadOpen, MayBecome, FormsOffered, CanPerform, StepsShown
        <5> QED
          BY <3>1, <4>3, <5>1, <5>2 DEF PageSound
      <4> QED
        BY <4>1, <4>2, <4>3
    <3> QED
      BY <3>1, <3>2, <3>3 DEF Pads
  <2>6. pads \in [Signatories -> Pads]
    BY <2>5
  <2> HIDE DEF pads
  <2>7. /\ s \in Pages /\ s.open /\ s.read = w /\ s.form = FormOf(w) /\ s.typed = {}
        /\ s.pad = pads
    BY <2>3, <2>6 DEF Pages
  <2> HIDE DEF s
  <2>8. \A r \in Signatories : PadOpen(r, s) => PadOpen(r, q)
    BY <2>3, <2>5, <2>7 DEF PadOpen
  <2>9. PageSound(s, w)
    BY <1>1, <1>4, <2>5, <2>7, <2>8 DEF PageSound
  <2> QED
    BY <1>1, <2>2, <2>7, <2>9 DEF Followed
<1> QED
  BY <1>3, <1>4

-----------------------------------------------------------------------------
(* Where the document goes *)

LEMMA FieldKinds ==
    /\ \A f \in LineFields : f[2] \in {"status", "notes"} /\ f[1] \in Gear
    /\ \A f \in PartFields : f[2] \in {"status", "quantity"}
    /\ \A f \in CheckFields : f[2] \in {"answer", "remark"} /\ f[1] \in Checklist
    /\ \A f \in OwnFields : f[2] \in {"suitcaseStatus", "generalNotes"}
    /\ Fields = LineFields \cup PartFields \cup CheckFields \cup OwnFields
    /\ EquipmentControls \cap CheckFields = {}
    /\ paper = "HANDOVER" => LineFields \subseteq EquipmentControls
<1>1. \A f \in LineFields : f[2] \in {"status", "notes"} /\ f[1] \in Gear
  BY DEF LineFields
<1>2. \A f \in PartFields : f[2] \in {"status", "quantity"}
  BY DEF PartFields
<1>3. \A f \in CheckFields : f[2] \in {"answer", "remark"} /\ f[1] \in Checklist
  BY DEF CheckFields
<1>4. \A f \in OwnFields : f[2] \in {"suitcaseStatus", "generalNotes"}
  BY DEF OwnFields
<1> QED
  BY <1>1, <1>2, <1>3, <1>4 DEF Fields, EquipmentControls

LEMMA DocumentStarts ==
    ASSUME DeskPagesInv, TakesStart(world), NEW prepared \in Prepared
    PROVE  MayBecome(IF Reuses(world) THEN world
                     ELSE [world EXCEPT !.state = "OPEN", !.say = Started(prepared),
                             !.status = IF paper = "RETURN" THEN "RETURN_INSPECTION" ELSE world.status])
<1>1. PICK old \in Worlds : old = world /\ WorldSound(old) /\ Untouched(old.say)
  BY DEF DeskPagesInv
<1>2. Started(prepared) \in [Fields -> Values]
  BY FieldKinds DEF Started, Prepared, Values, Null
<1>3. Untouched(Started(prepared))
  BY FieldKinds DEF Untouched, Started, DeskPagesInv, Papers
<1> DEFINE w == [old EXCEPT !.state = "OPEN", !.say = Started(prepared),
                            !.status = IF paper = "RETURN" THEN "RETURN_INSPECTION" ELSE old.status]
<1>4. /\ w \in Worlds /\ w.state = "OPEN" /\ w.say = Started(prepared) /\ w.obstacle = old.obstacle
      /\ w.status = (IF paper = "RETURN" THEN "RETURN_INSPECTION" ELSE old.status) /\ w.signed = old.signed
  BY <1>2 DEF Worlds
<1> HIDE DEF w
<1>5. ~Reuses(old) => MayBecome(w)
  BY <1>1, <1>3, <1>4 DEF MayBecome, WorldSound, TakesStart, DeskPagesInv, Papers
<1>6. MayBecome(old)
  BY <1>1 DEF MayBecome
<1> QED
  BY <1>1, <1>5, <1>6 DEF w

LEMMA DocumentAnswered ==
    ASSUME DeskPagesInv, NEW say \in [Fields -> Values], Untouched(say)
    PROVE  MayBecome([world EXCEPT !.say = say])
<1>1. PICK old \in Worlds : old = world /\ WorldSound(old)
  BY DEF DeskPagesInv
<1> DEFINE w == [old EXCEPT !.say = say]
<1>2. /\ w \in Worlds /\ w.say = say /\ w.signed = old.signed
      /\ w.state = old.state /\ w.status = old.status /\ w.obstacle = old.obstacle
  BY DEF Worlds
<1> HIDE DEF w
<1>3. MayBecome(w)
  BY <1>1, <1>2 DEF MayBecome, WorldSound
<1> QED
  BY <1>1, <1>3 DEF w

LEMMA EquipmentIsSaved ==
    ASSUME DeskPagesInv, NEW form \in [Fields -> Values]
    PROVE  /\ EquipmentSaved(world.say, form) \in [Fields -> Values]
           /\ Untouched(EquipmentSaved(world.say, form))
<1>1. world.say \in [Fields -> Values] /\ LineFields \subseteq Fields
  BY DEF DeskPagesInv, Worlds, Fields
<1>2. Null \in Values /\ "NOT_APPLICABLE" \in Values
  BY DEF Values
<1>3. EquipmentSaved(world.say, form) \in [Fields -> Values]
  BY <1>1, <1>2 DEF EquipmentSaved
<1>4. Untouched(EquipmentSaved(world.say, form))
  BY <1>1 DEF EquipmentSaved, Untouched
<1> QED
  BY <1>3, <1>4

LEMMA ChecklistIsSaved ==
    ASSUME DeskPagesInv, NEW form \in [Fields -> Values]
    PROVE  /\ ChecklistSaved(world.say, form) \in [Fields -> Values]
           /\ Untouched(ChecklistSaved(world.say, form))
<1>1. world.say \in [Fields -> Values] /\ Untouched(world.say)
  BY DEF DeskPagesInv, Worlds
<1> QED
  BY <1>1, FieldKinds DEF ChecklistSaved, Untouched, Values

LEMMA DocumentSigned ==
    ASSUME DeskPagesInv, NEW r \in Signatories
    PROVE  MayBecome([world EXCEPT !.signed[r] = "drawn"])
<1>1. PICK old \in Worlds : old = world /\ WorldSound(old) /\ Untouched(old.say)
  BY DEF DeskPagesInv
<1> DEFINE w == [old EXCEPT !.signed[r] = "drawn"]
<1>2. /\ w \in Worlds /\ w.say = old.say /\ w.signed = [old.signed EXCEPT ![r] = "drawn"]
      /\ w.state = old.state /\ w.status = old.status /\ w.obstacle = old.obstacle
  BY DEF Worlds
<1>3. \A o \in Signatories : old.signed[o] # "none" => w.signed[o] # "none"
  BY <1>2 DEF Worlds
<1> HIDE DEF w
<1>4. MayBecome(w)
  BY <1>1, <1>2, <1>3 DEF MayBecome, WorldSound
<1> QED
  BY <1>1, <1>4 DEF w

LEMMA DocumentCompletes ==
    ASSUME DeskPagesInv, Completes
    PROVE  \E w : world' = w /\ MayBecome(w)
<1>1. PICK old \in Worlds : old = world /\ WorldSound(old) /\ Untouched(old.say)
  BY DEF DeskPagesInv
<1> DEFINE w == [old EXCEPT !.state = "COMPLETED",
                            !.status = IF paper = "HANDOVER" THEN "CHECKED_OUT" ELSE "COMPLETED"]
<1>2. /\ w \in Worlds /\ w.say = old.say /\ w.signed = old.signed /\ w.obstacle = old.obstacle
      /\ w.state = "COMPLETED" /\ w.status = IF paper = "HANDOVER" THEN "CHECKED_OUT" ELSE "COMPLETED"
  BY DEF Worlds
<1>3. world' = w
  BY <1>1 DEF Completes
<1> HIDE DEF w
<1>4. MayBecome(w)
  BY <1>1, <1>2 DEF MayBecome, WorldSound
<1> QED
  BY <1>3, <1>4

LEMMA DocumentElsewhere ==
    ASSUME DeskPagesInv, Completes \/ OtherAnswers \/ OtherSigns \/ OtherStarts \/ BookingMoves
    PROVE  \E w : world' = w /\ MayBecome(w)
<1>1. PICK old \in Worlds : old = world /\ WorldSound(old) /\ Untouched(old.say)
  BY DEF DeskPagesInv
<1>2. CASE OtherAnswers
  <2>0. PICK f \in EquipmentControls \cup CheckFields :
            \E v \in Settings(f) \ {world.say[f]} :
               world' = [world EXCEPT !.say = [ChecklistSaved(world.say, [world.say EXCEPT ![f] = v])
                                                 EXCEPT ![f] = v]]
    BY <1>2 DEF OtherAnswers
  <2>1. PICK v \in Settings(f) :
            world' = [world EXCEPT !.say = [ChecklistSaved(world.say, [world.say EXCEPT ![f] = v])
                                              EXCEPT ![f] = v]]
    BY <2>0
  <2>2. f \in Fields /\ v \in Values
    BY FieldKinds DEF EquipmentControls, Settings, Values, ItemConditions, ChecklistAnswers
  <2> DEFINE form == [world.say EXCEPT ![f] = v]
             saved == ChecklistSaved(world.say, form)
             say == [saved EXCEPT ![f] = v]
  <2>3. form \in [Fields -> Values]
    BY <1>1, <2>2 DEF Worlds
  <2> HIDE DEF form
  <2>4. saved \in [Fields -> Values] /\ Untouched(saved)
    BY <2>3, ChecklistIsSaved
  <2> HIDE DEF saved
  <2>5. say \in [Fields -> Values] /\ Untouched(say)
    BY <2>2, <2>4, FieldKinds DEF Untouched
  <2> HIDE DEF say
  <2>6. world' = [world EXCEPT !.say = say]
    BY <2>1 DEF say, saved, form
  <2> QED
    BY <2>5, <2>6, DocumentAnswered
<1>3. CASE OtherSigns
  BY <1>3, DocumentSigned DEF OtherSigns
<1>4. CASE OtherStarts
  <2>1. Unprepared \in Prepared
    BY DEF Unprepared, Prepared
  <2>2. /\ TakesStart(world) /\ ~Reuses(world)
        /\ world' = [world EXCEPT !.state = "OPEN", !.say = Started(Unprepared),
                       !.status = IF paper = "RETURN" THEN "RETURN_INSPECTION" ELSE world.status]
    BY <1>4 DEF OtherStarts, Reuses
  <2> QED
    BY <2>1, <2>2, DocumentStarts
<1>5. CASE BookingMoves
  <2>1. ASSUME NEW s \in {"RESERVED", "READY_FOR_HANDOVER"}, world' = [world EXCEPT !.status = s]
        PROVE  \E w : world' = w /\ MayBecome(w)
    <3> DEFINE w == [old EXCEPT !.status = s]
    <3>1. /\ w \in Worlds /\ w.say = old.say /\ w.signed = old.signed /\ w.obstacle = old.obstacle
          /\ w.state = old.state /\ w.status = s
      BY DEF Worlds
    <3> HIDE DEF w
    <3>2. MayBecome(w)
      BY <1>1, <1>5, <3>1 DEF MayBecome, WorldSound, BookingMoves
    <3> QED
      BY <1>1, <2>1, <3>2 DEF w
  <2>2. ASSUME NEW o \in {"none", "kit", "editor"}, world' = [world EXCEPT !.obstacle = o]
        PROVE  \E w : world' = w /\ MayBecome(w)
    <3> DEFINE w == [old EXCEPT !.obstacle = o]
    <3>1. /\ w \in Worlds /\ w.say = old.say /\ w.signed = old.signed /\ w.obstacle = o
          /\ w.state = old.state /\ w.status = old.status
      BY DEF Worlds
    <3> HIDE DEF w
    <3>2. MayBecome(w)
      BY <1>1, <1>5, <3>1 DEF MayBecome, WorldSound, BookingMoves
    <3> QED
      BY <1>1, <2>2, <3>2 DEF w
  <2> QED
    BY <1>5, <2>1, <2>2 DEF BookingMoves
<1> QED
  BY <1>2, <1>3, <1>4, <1>5, DocumentCompletes

-----------------------------------------------------------------------------
(* Every step of a page, and of anybody else's *)

LEMMA PagesStart == DeskFormsInit => DeskPagesInv
<1> SUFFICES ASSUME DeskFormsInit
             PROVE  DeskPagesInv
  OBVIOUS
<1> USE DEF DeskFormsInit
<1>1. paper \in Papers /\ page = Closed
  OBVIOUS
<1>2. Started(Unprepared) \in [Fields -> Values] /\ Untouched(Started(Unprepared))
  <2>1. Started(Unprepared) \in [Fields -> Values]
    BY FieldKinds DEF Started, Unprepared, Values, Null
  <2>2. Untouched(Started(Unprepared))
    BY FieldKinds, <1>1 DEF Untouched, Started, Papers
  <2> QED
    BY <2>1, <2>2
<1>3. Answers("INCLUDED") \in [Fields -> Values] /\ Untouched(Answers("INCLUDED"))
  <2>1. Answers("INCLUDED") \in [Fields -> Values]
    BY DEF Answers, Values
  <2>2. ASSUME NEW f \in LineFields \ EquipmentControls
        PROVE  Answers("INCLUDED")[f] = IF f[2] = "status" THEN "NOT_APPLICABLE" ELSE Null
    <3>1. f \notin CheckFields /\ f \in Fields /\ paper = "RETURN" /\ f[2] \in {"status", "notes"}
      BY FieldKinds, <1>1, <2>2 DEF Papers
    <3>2. f[1] \notin went
      BY <3>1, <2>2 DEF EquipmentControls, WasHandedOver
    <3> QED
      BY <3>1, <3>2 DEF Answers
  <2> QED
    BY <2>1, <2>2 DEF Untouched
<1>4. world \in Worlds /\ Untouched(world.say)
  BY <1>1, <1>2, <1>3 DEF Documents, Worlds, Papers
<1>5. WorldSound(world)
  BY <1>1 DEF Documents, WorldSound, Papers
<1> QED
  BY <1>1, <1>4, <1>5, ClosedIsAPage DEF DeskPagesInv

\* Where nobody changes the document, it may become what it is.
LEMMA WorldMayStay == DeskPagesInv => MayBecome(world)
BY DEF DeskPagesInv, MayBecome

LEMMA PagePutAway ==
    ASSUME DeskPagesInv, UNCHANGED <<paper, went, world>>, NEW p, page' = p, Followed(p, world)
    PROVE  DeskPagesInv'
BY WorldMayStay, PagesMove DEF DeskPagesInv

LEMMA PageFollows ==
    ASSUME DeskPagesInv, UNCHANGED <<paper, went, page>>, NEW w, world' = w, MayBecome(w)
    PROVE  DeskPagesInv'
<1>1. Followed(page, w)
  BY DEF DeskPagesInv, Followed, PageSound, MayBecome
<1> QED
  BY <1>1, PagesMove DEF DeskPagesInv

LEMMA PageIsTaken ==
    ASSUME DeskPagesInv, page.open, NEW w, MayBecome(w), Taken(w)
    PROVE  DeskPagesInv' /\ page'.open /\ page'.read = w
<1>1. Followed(page, world)
  BY DEF DeskPagesInv
<1>2. Followed(Rendered(page, w), w) /\ Rendered(page, w).open /\ Rendered(page, w).read = w
  BY <1>1, RenderedIsSound
<1> QED
  BY <1>2, PagesMove DEF Taken, DeskPagesInv

LEMMA PageOnDocument ==
    ASSUME DeskPagesInv, page.open
    PROVE  page \in Pages /\ page.read \in Worlds /\ PageSound(page, world)
BY DEF DeskPagesInv, Followed, Closed

LEMMA ControlsSet ==
    ASSUME DeskPagesInv, SetControl
    PROVE  DeskPagesInv'
<1>1. PICK p \in Pages : p = page /\ p.open /\ p.read \in Worlds /\ PageSound(p, world)
  BY PageOnDocument DEF SetControl, MayGesture
<1>2. PICK f \in Controls \ p.typed : \E v \in Settings(f) :
          page' = [page EXCEPT !.form[f] = v, !.typed = @ \cup {f}]
  BY <1>1 DEF SetControl
<1>3. PICK v \in Settings(f) : page' = [p EXCEPT !.form[f] = v, !.typed = p.typed \cup {f}]
  BY <1>1, <1>2
<1>4. f \in EquipmentControls \cup CheckFields /\ f \in Fields /\ v \in Values
  BY FieldKinds DEF Controls, EquipmentControls, Settings, Values, ItemConditions, ChecklistAnswers
<1> DEFINE q == [p EXCEPT !.form[f] = v, !.typed = p.typed \cup {f}]
<1>5. /\ q \in Pages /\ q.open /\ q.read = p.read /\ q.typed = p.typed \cup {f} /\ q.pad = p.pad
      /\ q.form = [p.form EXCEPT ![f] = v]
  BY <1>1, <1>4 DEF Pages
<1> HIDE DEF q
<1>6. PageSound(q, world)
  <2>1. \A g \in Fields \ q.typed : q.form[g] = Default(g, q.read)
    BY <1>1, <1>5 DEF PageSound, Pages
  <2> QED
    BY <1>1, <1>4, <1>5, <2>1 DEF PageSound, PadOpen
<1>7. Followed(q, world)
  BY <1>1, <1>5, <1>6 DEF Followed
<1> QED
  BY <1>3, <1>7, PagePutAway DEF SetControl, q

LEMMA ChecksAmended ==
    ASSUME DeskPagesInv, Amend
    PROVE  DeskPagesInv'
<1>1. PICK p \in Pages : p = page /\ p.open /\ p.read \in Worlds /\ PageSound(p, world)
  BY PageOnDocument DEF Amend, MayGesture
<1> DEFINE form == [f \in Fields |-> IF f \in CheckFields THEN Default(f, p.read) ELSE p.form[f]]
           q == [p EXCEPT !.amending = ~p.amending, !.typed = p.typed \ CheckFields, !.form = form]
<1>2. \A f \in Fields : Default(f, p.read) \in Values
  BY <1>1, DefaultsAreValues
<1>3. form \in [Fields -> Values] /\ \A f \in Fields \ p.typed : form[f] = Default(f, p.read)
  BY <1>1, <1>2 DEF Pages, PageSound
<1>4. \A f \in Fields \cap CheckFields : form[f] = Default(f, p.read)
  OBVIOUS
<1> HIDE DEF form
<1>5. /\ q \in Pages /\ q.open /\ q.read = p.read /\ q.typed = p.typed \ CheckFields
      /\ q.pad = p.pad /\ q.form = form
  BY <1>1, <1>3 DEF Pages
<1>6. page' = q
  BY <1>1 DEF Amend, form
<1> HIDE DEF q
<1>7. PageSound(q, world)
  BY <1>1, <1>3, <1>4, <1>5 DEF PageSound, PadOpen
<1>8. Followed(q, world)
  BY <1>1, <1>5, <1>7 DEF Followed
<1> QED
  BY <1>6, <1>8, PagePutAway DEF Amend

\* A pad that is opened, drawn on, cleared or closed on a page that shows it.
LEMMA PadsMove ==
    ASSUME DeskPagesInv, page.open, FormsOffered(page.read), NEW r \in Signatories, NEW pad \in Pads,
           pad.hasInk => pad.inked \/ (page.read.signed[r] # "none" /\ ~pad.resign),
           Gestured(r, pad)
    PROVE  DeskPagesInv'
<1>1. PICK p \in Pages : p = page /\ p.open /\ p.read \in Worlds /\ PageSound(p, world)
  BY PageOnDocument
<1> DEFINE q == [p EXCEPT !.pad[r] = pad]
<1>2. /\ q \in Pages /\ q.open /\ q.read = p.read /\ q.typed = p.typed /\ q.form = p.form
      /\ q.pad = [p.pad EXCEPT ![r] = pad]
  BY <1>1 DEF Pages
<1>3. q.pad[r] = pad /\ \A o \in Signatories \ {r} : q.pad[o] = p.pad[o]
  BY <1>1, <1>2 DEF Pages
<1>4. page' = q
  BY <1>1 DEF Gestured
<1> HIDE DEF q
<1>5. StepsShown(p.read)
  BY <1>1 DEF FormsOffered
<1>6. PageSound(q, world)
  BY <1>1, <1>2, <1>3, <1>5 DEF PageSound, PadOpen
<1>7. Followed(q, world)
  BY <1>1, <1>2, <1>6 DEF Followed
<1> QED
  BY <1>4, <1>7, PagePutAway DEF Gestured

LEMMA PadsAreUsed ==
    ASSUME DeskPagesInv, NEW r \in Signatories,
           Draw(r) \/ ClearPad(r) \/ SignAgain(r) \/ KeepExisting(r)
    PROVE  DeskPagesInv'
<1>1. page.open /\ FormsOffered(page.read)
  BY DEF Draw, ClearPad, SignAgain, KeepExisting, MayGesture, PadOpen
<1>2. PICK pad \in Pads : pad = page.pad[r]
  BY <1>1, PageOnDocument DEF Pages
<1>3. /\ [pad EXCEPT !.hasInk = TRUE, !.inked = TRUE] \in Pads
      /\ [pad EXCEPT !.hasInk = TRUE, !.inked = TRUE].inked
  BY DEF Pads
<1>4. /\ [pad EXCEPT !.hasInk = FALSE, !.inked = FALSE] \in Pads
      /\ ~[pad EXCEPT !.hasInk = FALSE, !.inked = FALSE].hasInk
  BY DEF Pads
<1>5. PadAgain(pad) \in Pads /\ ~PadAgain(pad).hasInk
  BY DEF Pads, PadAgain
<1>6. /\ [pad EXCEPT !.resign = FALSE, !.inked = FALSE] \in Pads
      /\ ~[pad EXCEPT !.resign = FALSE, !.inked = FALSE].resign
  BY DEF Pads
<1>7. CASE Draw(r)
  BY <1>1, <1>2, <1>3, <1>7, PadsMove DEF Draw
<1>8. CASE ClearPad(r)
  BY <1>1, <1>2, <1>4, <1>8, PadsMove DEF ClearPad
<1>9. CASE SignAgain(r)
  BY <1>1, <1>2, <1>5, <1>9, PadsMove DEF SignAgain
<1>10. CASE KeepExisting(r)
  BY <1>1, <1>2, <1>6, <1>10, PadsMove DEF KeepExisting
<1> QED
  BY <1>7, <1>8, <1>9, <1>10

LEMMA TickMoves ==
    ASSUME DeskPagesInv, Confirm
    PROVE  DeskPagesInv'
<1>1. PICK p \in Pages : p = page /\ p.open /\ p.read \in Worlds /\ PageSound(p, world)
  BY PageOnDocument DEF Confirm, MayGesture
<1> DEFINE q == [p EXCEPT !.confirmed = ~p.confirmed]
<1>2. /\ q \in Pages /\ q.open /\ q.read = p.read /\ q.typed = p.typed /\ q.form = p.form
      /\ q.pad = p.pad
  BY <1>1 DEF Pages
<1>3. page' = q
  BY <1>1 DEF Confirm
<1> HIDE DEF q
<1>4. Followed(q, world)
  BY <1>1, <1>2 DEF Followed, PageSound, PadOpen
<1> QED
  BY <1>3, <1>4, PagePutAway DEF Confirm

\* What a pad that is saved is drawn with.
LEMMA PadIsDrawn ==
    ASSUME DeskPagesInv, page.open, NEW r \in Signatories, PadOpen(r, page), page.pad[r].hasInk
    PROVE  page.pad[r].inked
BY PageOnDocument DEF PageSound

LEMMA PostsMove ==
    ASSUME DeskPagesInv,
           PressStart \/ SaveEquipment \/ SaveChecklist \/ (\E r \in Signatories : SaveSignature(r))
    PROVE  DeskPagesInv'
<1>1. page.open /\ page \in Pages /\ page.form \in [Fields -> Values]
  BY PageOnDocument DEF PressStart, SaveEquipment, SaveChecklist, SaveSignature, MayPost, Pages
<1>2. ASSUME Refused(page) \/ Refused(Closed)
      PROVE  DeskPagesInv'
  <2>1. Followed(page, world) /\ Followed(Closed, world)
    BY ClosedIsAPage DEF DeskPagesInv
  <2> QED
    BY <1>2, <2>1, PagePutAway DEF Refused
<1>3. CASE PressStart
  BY <1>1, <1>2, <1>3, DocumentStarts, PageIsTaken DEF PressStart
<1>4. CASE SaveEquipment
  BY <1>1, <1>2, <1>4, EquipmentIsSaved, DocumentAnswered, PageIsTaken DEF SaveEquipment
<1>5. CASE SaveChecklist
  BY <1>1, <1>2, <1>5, ChecklistIsSaved, DocumentAnswered, PageIsTaken DEF SaveChecklist
<1>6. ASSUME NEW r \in Signatories, SaveSignature(r)
      PROVE  DeskPagesInv'
  <2>1. page.pad[r].inked
    BY <1>1, <1>6, PadIsDrawn DEF SaveSignature
  <2>2. Refused(page) \/ Taken([world EXCEPT !.signed[r] = "drawn"])
    BY <1>6, <2>1 DEF SaveSignature
  <2> QED
    BY <1>1, <1>2, <2>2, DocumentSigned, PageIsTaken
<1> QED
  BY <1>3, <1>4, <1>5, <1>6

LEMMA PagesStepHolds == DeskPagesInv /\ [DeskFormsNext]_deskFormVars => DeskPagesInv'
<1> SUFFICES ASSUME DeskPagesInv, [DeskFormsNext]_deskFormVars
             PROVE  DeskPagesInv'
  OBVIOUS
<1>1. CASE OpenPage
  <2>1. Followed(Rendered(Closed, world), world)
    BY ClosedIsAPage, WorldMayStay, RenderedIsSound
  <2> QED
    BY <1>1, <2>1, PagePutAway DEF OpenPage
<1>2. CASE Leave
  BY <1>2, ClosedIsAPage, PagePutAway DEF Leave
<1>3. CASE PressStart \/ SaveEquipment \/ SaveChecklist \/ \E r \in Signatories : SaveSignature(r)
  BY <1>3, PostsMove
<1>4. CASE SetControl
  BY <1>4, ControlsSet
<1>5. CASE Amend
  BY <1>5, ChecksAmended
<1>6. CASE \E r \in Signatories : Draw(r) \/ ClearPad(r) \/ SignAgain(r) \/ KeepExisting(r)
  BY <1>6, PadsAreUsed
<1>7. CASE Confirm
  BY <1>7, TickMoves
<1>8. CASE PressComplete
  <2>1. CASE Refused(page)
    BY <2>1, PagePutAway DEF Refused, DeskPagesInv
  <2>2. CASE Completes /\ page' = Closed /\ UNCHANGED <<paper, went>>
    BY <2>2, DocumentCompletes, ClosedIsAPage, PagesMove DEF DeskPagesInv
  <2> QED
    BY <1>8, <2>1, <2>2 DEF PressComplete
<1>9. CASE Elsewhere
  BY <1>9, DocumentElsewhere, PageFollows DEF Elsewhere
<1>10. CASE UNCHANGED deskFormVars
  BY <1>10, PagePutAway DEF deskFormVars, DeskPagesInv
<1> QED
  BY <1>1, <1>2, <1>3, <1>4, <1>5, <1>6, <1>7, <1>8, <1>9, <1>10 DEF DeskFormsNext

\* No page of a document loses touch with it: what was not set on it shows what
\* was read, only what can be answered there was set, a pad that can be saved
\* counts as drawn on only when it is, and what a page does not let anybody
\* answer nobody answered (handover-steps.tsx, return-steps.tsx,
\* signature-pad.tsx, and the writes of document-writes.ts).
THEOREM PagesAreSound == DeskFormsSpec => []DeskPagesInv
BY PagesStart, PagesStepHolds, PTL DEF DeskFormsSpec

-----------------------------------------------------------------------------
(* What pages offer, and what is stored of them *)

LEMMA OffersFollow == DeskPagesInv => OffersHold
<1> SUFFICES ASSUME DeskPagesInv, NEW w, w = page.read, page.open, w = world
             PROVE  /\ w.state = "NONE" => (StartOffered(w) <=> TakesStart(w))
                    /\ (FormsOffered(w) /\ CanComplete(w)) <=> TakesCompletion(w)
                    /\ TakesAnswers(w) => FormsOffered(w)
                    /\ FormsOffered(w) /\ BookingBlockers(w) = {}
                          => TakesAnswers(w) /\ \A r \in Signatories : TakesSignature(w, r)
  BY DEF OffersHold
<1>1. /\ WorldSound(w) /\ paper \in Papers /\ w.state \in {"NONE", "OPEN", "COMPLETED"}
      /\ w.obstacle \in {"none", "kit", "editor"}
  BY DEF DeskPagesInv, Worlds
<1>2. CASE paper = "HANDOVER"
  <2>1. BookingBlockers(w) = {} <=> w.obstacle = "none"
    BY <1>1, <1>2 DEF BookingBlockers
  <2>2. w.status \in {"RESERVED", "READY_FOR_HANDOVER", "CHECKED_OUT"}
        /\ (w.status = "CHECKED_OUT" <=> w.state = "COMPLETED")
    BY <1>1, <1>2 DEF WorldSound
  <2>3. Completed(w) <=> w.status # "READY_FOR_HANDOVER"
    BY <1>2, <2>2 DEF Completed
  <2>4. TakesAnswers(w) <=> w.status = "READY_FOR_HANDOVER" /\ w.state = "OPEN"
    BY <1>2 DEF TakesAnswers, AtTheDesk
  <2>5. FormsOffered(w) <=> w.status = "READY_FOR_HANDOVER" /\ w.state = "OPEN"
    BY <1>1, <2>2, <2>3 DEF FormsOffered, StepsShown, CanPerform
  <2>6. w.state = "NONE" => (StartOffered(w) <=> TakesStart(w))
    BY <1>2, <2>3 DEF StartOffered, CanPerform, TakesStart, Reuses
  <2>7. (FormsOffered(w) /\ CanComplete(w)) <=> TakesCompletion(w)
    BY <2>3, <2>4, <2>5 DEF CanComplete, TakesCompletion
  <2>8. BookingBlockers(w) = {} /\ TakesAnswers(w) => \A r \in Signatories : TakesSignature(w, r)
    BY <2>1 DEF TakesSignature
  <2> QED
    BY <2>4, <2>5, <2>6, <2>7, <2>8
<1>3. CASE paper = "RETURN"
  <2>1. /\ w.state = "NONE" => w.status = "CHECKED_OUT"
        /\ w.state = "OPEN" => w.status = "RETURN_INSPECTION"
        /\ w.state = "COMPLETED" => w.status = "COMPLETED"
    BY <1>1, <1>3 DEF WorldSound
  <2>2. /\ Completed(w) <=> w.state = "COMPLETED"
        /\ BookingBlockers(w) = {} <=> w.state # "COMPLETED"
    BY <1>1, <1>3, <2>1 DEF Completed, BookingBlockers
  <2>3. /\ TakesAnswers(w) <=> w.state = "OPEN"
        /\ FormsOffered(w) <=> w.state = "OPEN"
    BY <1>1, <1>3, <2>1, <2>2 DEF TakesAnswers, AtTheDesk, FormsOffered, StepsShown, CanPerform
  <2>4. w.state = "NONE" => (StartOffered(w) <=> TakesStart(w))
    BY <1>3, <2>1, <2>2 DEF StartOffered, CanPerform, TakesStart, Reuses
  <2>5. (FormsOffered(w) /\ CanComplete(w)) <=> TakesCompletion(w)
    BY <2>2, <2>3 DEF CanComplete, TakesCompletion
  <2>6. TakesAnswers(w) => \A r \in Signatories : TakesSignature(w, r)
    BY <1>3 DEF TakesSignature
  <2> QED
    BY <2>2, <2>3, <2>4, <2>5, <2>6
<1> QED
  BY <1>1, <1>2, <1>3 DEF Papers

\* A page just rendered offers the start and the completion exactly when the
\* service would take them, every step the service would take, and no save or
\* signature that it would refuse without saying why (canPerform, canComplete
\* and the blockers of the pages against requireOpenHandover,
\* requireOpenReturn, assertReadyForHandover and assertReturnable).
THEOREM PagesOfferWhatIsTaken == DeskFormsSpec => []OffersHold
BY PagesAreSound, OffersFollow, PTL

\* What StoredAsPutDown says of one field of one save.
Stores(f) ==
    IF f \in page.typed /\ (f \in CheckFields <=> result' = "checklist")
    THEN Meaning(f, world') = Default(f, [world EXCEPT !.say[f] = page.form[f]])
    ELSE Meaning(f, world) = Meaning(f, page.read) => Meaning(f, world') = Meaning(f, world)

LEMMA DefaultsOfWhatIsSaid ==
    ASSUME NEW w \in Worlds, NEW f \in Fields
    PROVE  /\ \A v \in Worlds : v.say[f] = w.say[f] => Default(f, v) = Default(f, w)
           /\ \A v \in Worlds : v.say[f] = Default(f, w) => Default(f, v) = Default(f, w)
           /\ Default(f, [w EXCEPT !.say[f] = page.form[f]])
                = IF f[2] = "quantity" /\ paper = "HANDOVER" /\ page.form[f] = Null THEN "expected"
                  ELSE page.form[f]
<1>1. [w EXCEPT !.say[f] = page.form[f]].say[f] = page.form[f]
  BY DEF Worlds
<1> QED
  BY <1>1 DEF Default, Null

\* A field that is put down, or shows what was read, and is stored as it shows.
LEMMA FieldsAreStored ==
    ASSUME DeskPagesInv, page.open, NEW w \in Worlds, world' = w, NEW f \in Fields
    PROVE  /\ w.say[f] = page.form[f] /\ (f \in CheckFields <=> result' = "checklist") => Stores(f)
           /\ w.say[f] = world.say[f] /\ ~(f \in page.typed /\ (f \in CheckFields <=> result' = "checklist"))
                 => Stores(f)
<1>1. PICK old \in Worlds : old = world
  BY DEF DeskPagesInv
<1>2. page.read \in Worlds /\ PageSound(page, world)
  BY PageOnDocument
<1>3. ASSUME w.say[f] = world.say[f], ~(f \in page.typed /\ (f \in CheckFields <=> result' = "checklist"))
      PROVE  Stores(f)
  BY <1>1, <1>3, DefaultsOfWhatIsSaid DEF Stores, Meaning
<1>4. ASSUME w.say[f] = page.form[f], f \in page.typed
      PROVE  Default(f, w) = Default(f, [world EXCEPT !.say[f] = page.form[f]])
  BY <1>1, <1>4, DefaultsOfWhatIsSaid DEF Default
<1>5. ASSUME w.say[f] = page.form[f], f \notin page.typed
      PROVE  Default(f, w) = Default(f, page.read)
  <2>1. w.say[f] = Default(f, page.read)
    BY <1>2, <1>5 DEF PageSound
  <2> QED
    BY <1>2, <2>1, DefaultsOfWhatIsSaid
<1> QED
  BY <1>3, <1>4, <1>5 DEF Stores, Meaning

LEMMA SavedEquipmentIsPutDown ==
    ASSUME DeskPagesInv, SaveEquipment, result' = "equipment", NEW f \in Fields
    PROVE  Stores(f)
<1>1. PICK old \in Worlds : old = world /\ Untouched(old.say) /\ page.open /\ page \in Pages
  BY PageOnDocument DEF DeskPagesInv, SaveEquipment, MayPost
<1> DEFINE say == EquipmentSaved(old.say, page.form)
           w == [old EXCEPT !.say = say]
<1>2. say \in [Fields -> Values]
  BY <1>1, EquipmentIsSaved DEF Pages
<1>3. world' = w
  BY <1>1 DEF SaveEquipment, Refused, Taken
<1>4. say[f] = IF f \in EquipmentControls THEN page.form[f]
               ELSE IF f \in LineFields THEN IF f[2] = "status" THEN "NOT_APPLICABLE" ELSE Null
               ELSE old.say[f]
  BY DEF EquipmentSaved
<1>5. f \notin EquipmentControls => say[f] = world.say[f]
  BY <1>1, <1>4 DEF Untouched
<1> HIDE DEF say
<1>6. w \in Worlds /\ w.say = say
  BY <1>2 DEF Worlds
<1> HIDE DEF w
<1>7. f \in EquipmentControls => f \notin CheckFields
  BY FieldKinds
<1>8. f \notin EquipmentControls /\ f \in page.typed => f \in CheckFields
  BY <1>1, PageOnDocument DEF PageSound
<1> QED
  BY <1>1, <1>3, <1>4, <1>5, <1>6, <1>7, <1>8, FieldsAreStored

LEMMA SavedChecklistIsPutDown ==
    ASSUME DeskPagesInv, SaveChecklist, result' = "checklist", NEW f \in Fields, ~Unanswered(f)
    PROVE  Stores(f)
<1>1. PICK old \in Worlds : old = world /\ page.open /\ page \in Pages
  BY PageOnDocument DEF DeskPagesInv, SaveChecklist, MayPost
<1> DEFINE say == ChecklistSaved(old.say, page.form)
           w == [old EXCEPT !.say = say]
<1>2. say \in [Fields -> Values]
  BY <1>1, ChecklistIsSaved DEF Pages
<1>3. world' = w
  BY <1>1 DEF SaveChecklist, Refused, Taken
<1>4. say[f] = IF f \in CheckFields
               THEN IF page.form[<<f[1], "answer">>] = Null THEN Null ELSE page.form[f]
               ELSE old.say[f]
  BY DEF ChecklistSaved
<1>5. f \in CheckFields => say[f] = page.form[f]
  <2>1. f \in CheckFields => f[2] \in {"answer", "remark"} /\ (f[2] = "answer" => f = <<f[1], "answer">>)
    BY DEF CheckFields
  <2> QED
    BY <1>4, <2>1 DEF Unanswered
<1> HIDE DEF say
<1>6. w \in Worlds /\ w.say = say
  BY <1>2 DEF Worlds
<1> HIDE DEF w
<1> QED
  BY <1>1, <1>3, <1>4, <1>5, <1>6, FieldsAreStored

\* A save changes what was set on the page, to what it was set to, and nothing
\* else that nobody changed since, and no blank pad is stored as a signature
\* (the forms of handover-steps.tsx and return-steps.tsx, signature-pad.tsx,
\* saveEquipment, saveChecklist and captureSignature).
THEOREM PagesStoreWhatIsPutDown == DeskFormsSpec => StoredAsPutDown
<1>1. ASSUME DeskPagesInv, DeskPagesInv', DeskFormsNext, NEW f \in Fields, result' \in Saves
      PROVE  Unanswered(f) \/ Stores(f)
  <2>1. \/ SaveEquipment /\ result' = "equipment"
        \/ SaveChecklist /\ result' = "checklist"
    BY <1>1 DEF DeskFormsNext, Saves, OpenPage, Leave, PressStart, SetControl, Amend, SaveEquipment,
         SaveChecklist, Refused, Gestured, Draw, ClearPad, SignAgain, KeepExisting, SaveSignature,
         Confirm, PressComplete, Elsewhere
  <2> QED
    BY <1>1, <2>1, SavedEquipmentIsPutDown, SavedChecklistIsPutDown
<1>2. DeskPagesInv' => \A r \in Signatories : world'.signed[r] # "blank"
  BY DEF DeskPagesInv, Worlds
<1>3. DeskPagesInv /\ DeskPagesInv' /\ [DeskFormsNext]_deskFormVars
        => [/\ result' \in Saves =>
                 \A f \in Fields :
                    \/ Unanswered(f)
                    \/ IF f \in page.typed /\ (f \in CheckFields <=> result' = "checklist")
                       THEN Meaning(f, world') = Default(f, [world EXCEPT !.say[f] = page.form[f]])
                       ELSE Meaning(f, world) = Meaning(f, page.read)
                                => Meaning(f, world') = Meaning(f, world)
            /\ result' = "signature" => \A r \in Signatories : world'.signed[r] # "blank"
           ]_deskFormVars
  BY <1>1, <1>2 DEF Stores
<1> QED
  BY <1>3, PagesAreSound, PTL DEF DeskFormsSpec, StoredAsPutDown
=============================================================================
