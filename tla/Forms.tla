------------------------------- MODULE Forms --------------------------------
(* The edit and create forms of the desk: what a page fills a form with, what *)
(* the browser posts, what the schema of the action makes of it and what the  *)
(* service writes (src/features/*/components, src/lib/validation,             *)
(* src/server/actions).  One record of one kind, and the people who edit it.  *)
(*                                                                            *)
(* A value is one of a few strings; Blank is an empty field, Null a null      *)
(* column, and Absent a field the browser does not post at all: a disabled    *)
(* control, an unticked box, a control that is not on the page.  Instants are *)
(* read and typed as wall-clock readings of the business time zone.           *)
EXTENDS BookingRules, ZonedTime, FiniteSets

CONSTANTS Kinds,      \* the kinds of record
          Zones,      \* business time zones
          Readings,   \* wall-clock readings a person types
          MaxTyped,   \* fields typed in one opening of a form
          MaxSaves    \* submissions

RecordKinds ==
    {"booking", "kit", "asset", "accessory", "member", "editor", "category", "software", "item"}

\* People type readings of a clock, one of them first and one last.  NoCollection
\* stands for no date: it is no instant anybody means.
ASSUME FormsAssumption ==
    /\ Kinds \subseteq RecordKinds
    /\ Zones \subseteq [change : Int, before : Int, after : Int]
    /\ Readings \subseteq Int
    /\ \E first, last \in Readings : \A w \in Readings : first =< w /\ w =< last
    /\ \A z \in Zones, w \in Readings :
         LET t == ZonedLocalToDate(z, w)
         IN  NoCollection \notin {w, t, ToZonedLocalInput(z, t)}

VARIABLES kind, zone,
          row,      \* the record, NoRecord before it is created
          profileName,  \* the name on the directory profile of a legacy booking
          form,     \* the fields as the page shows them
          opened,   \* what the record read when the page was opened
          typed,    \* the fields the person has typed into
          outcome,  \* "closed", "editing", "saved" or "refused"
          saves

formVars == <<kind, zone, row, profileName, form, opened, typed, outcome, saves>>

Blank  == ""
Null   == "null"
Absent == "absent"
NoRecord  == [kind |-> "none"]

-----------------------------------------------------------------------------
(* Fields.  `value ?? ''` fills a text field; emptyToUndefined and optionalText *)
(* read it back, and nullIfEmpty writes it.                                     *)

Shown(v) == IF v = Null THEN Blank ELSE v
OptionalText(p) == IF p \in {Blank, Absent} THEN Null ELSE p

\* What a service may write: nothing when it refuses.
Unless(refused, rows) == IF refused THEN {} ELSE rows

\* A record with the columns of p, and its own where p has none.
WrittenOver(r, p) ==
    [g \in DOMAIN p \cup DOMAIN r |-> IF g \in DOMAIN p THEN p[g] ELSE r[g]]

\* A box posts its value only when it is ticked.
TickBox(v) == IF v THEN "on" ELSE Absent
Ticked(p) == p = "on"

\* A select of the status posts it, unless it is disabled for want of a choice.
StatusSelect(status, options) ==
    IF Cardinality(options) =< 1 THEN Absent ELSE status

\* sortOrder and quantity are numbers within bounds.
SortOrders == 0..999
Quantities == 1..99

-----------------------------------------------------------------------------
(* Bookings *)

\* Who the booking is for, as requesterOf reads it: its own record, else the
\* profile's.
RequesterOf(r) ==
    [r EXCEPT !.requesterName = IF @ = Null /\ r.editorId # Null THEN profileName ELSE @]

BookingForm(r) ==
    [kitId |-> r.kitId, requesterName |-> Shown(RequesterOf(r).requesterName),
     requesterStaffId |-> Shown(r.requesterStaffId),
     projectName |-> Shown(r.projectName),
     bookingStart |-> ToZonedLocalInput(zone, r.bookingStart),
     bookingEnd |-> ToZonedLocalInput(zone, r.bookingEnd),
     collectionDate |-> IF r.collectionDate = NoCollection THEN NoCollection
                        ELSE ToZonedLocalInput(zone, r.collectionDate),
     expectedReturnDate |-> ToZonedLocalInput(zone, r.expectedReturnDate),
     notes |-> Shown(r.notes)]

\* A new booking starts at the next full hour and lasts three days: two
\* readings of the instance.
NewBookingForm ==
    LET first == CHOOSE w \in Readings : \A v \in Readings : w =< v
        last  == CHOOSE w \in Readings : \A v \in Readings : v =< w
    IN  [kitId |-> "kit", requesterName |-> Blank, requesterStaffId |-> Blank,
         projectName |-> Blank, bookingStart |-> first, bookingEnd |-> last,
         collectionDate |-> NoCollection, expectedReturnDate |-> NoCollection,
         notes |-> Blank]

\* The schedule as instants.  A blank return is due at the end of the booking.
ParseSchedule(f) ==
    LET read(w) == IF w = NoCollection THEN NoCollection
                   ELSE ZonedLocalToDate(zone, w)
    IN  [start |-> read(f.bookingStart), end |-> read(f.bookingEnd),
         collection |-> read(f.collectionDate),
         expected |-> IF f.expectedReturnDate = NoCollection
                      THEN read(f.bookingEnd) ELSE read(f.expectedReturnDate)]

ParsedBooking(f) ==
    LET s == ParseSchedule(f)
    IN  [kitId |-> f.kitId, requesterName |-> OptionalText(f.requesterName),
         requesterStaffId |-> OptionalText(f.requesterStaffId),
         projectName |-> OptionalText(f.projectName),
         bookingStart |-> s.start, bookingEnd |-> s.end,
         collectionDate |-> s.collection, expectedReturnDate |-> s.expected,
         notes |-> OptionalText(f.notes)]

\* Without a directory profile the booking has to say who it is for.
RequesterRequired(r, p) ==
    r.editorId = Null => p.requesterName # Null /\ p.projectName # Null

\* The name of the requester and of the project stay when they are blank.
NextBooking(r, p) ==
    [r EXCEPT !.kitId = p.kitId,
              !.requesterName = IF p.requesterName = Null THEN @ ELSE p.requesterName,
              !.requesterStaffId = p.requesterStaffId,
              !.projectName = IF p.projectName = Null THEN @ ELSE p.projectName,
              !.bookingStart = p.bookingStart, !.bookingEnd = p.bookingEnd,
              !.collectionDate = p.collectionDate,
              !.expectedReturnDate = p.expectedReturnDate, !.notes = p.notes]

Structural == {"kitId", "bookingStart", "bookingEnd", "collectionDate", "expectedReturnDate"}
Windowed   == {"kitId", "bookingStart", "bookingEnd"}

\* updateBooking: closed once the kit is out, details only while it is set
\* aside; a new kit or window of a booking that holds its kit has to be free.
UpdatedBooking(r, f) ==
    LET p       == ParsedBooking(f)
        next    == NextBooking(r, p)
        changed == {g \in DOMAIN p : next[g] # r[g]}
    IN  Unless(\/ EditScopeFor(r.status) = "none"
               \/ ~RequesterRequired(r, p)
               \/ ScheduleErrors(ParseSchedule(f)) # {}
               \/ EditScopeFor(r.status) = "restricted" /\ changed \cap Structural # {}
               \/ r.status \in HoldingStatuses /\ changed \cap Windowed # {} /\ ~r.free,
               {next})

\* A draft holds nothing; "Reserve kit" also asks that the window is free.
CreatedBooking(f) ==
    LET p == ParsedBooking(f)
    IN  Unless(\/ p.requesterName = Null \/ p.projectName = Null
               \/ ScheduleErrors(ParseSchedule(f)) # {},
               {WrittenOver([kind |-> "booking", editorId |-> Null, status |-> c[1], free |-> c[2]], p) :
                  c \in ({"DRAFT"} \X BOOLEAN) \cup {<<"RESERVED", TRUE>>}})

-----------------------------------------------------------------------------
(* Kits and equipment: the statuses a form offers are those the service allows *)

WorkflowStatuses == {"RESERVED", "CHECKED_OUT"}

KitStatusOptions(r) ==
    IF r.status \in WorkflowStatuses THEN {r.status}
    ELSE {r.status, "AVAILABLE", "MAINTENANCE", "DAMAGED", "RETIRED"}
            \ (IF r.filled \/ r.booked THEN {"RETIRED"} ELSE {})

KitForm(r) ==
    [kitCode |-> r.kitCode, admBarcode |-> Shown(r.admBarcode),
     suitcaseStatus |-> r.suitcaseStatus,
     status |-> StatusSelect(r.status, KitStatusOptions(r)),
     notes |-> Shown(r.notes)]

NewKitForm ==
    [kitCode |-> Blank, admBarcode |-> Blank, suitcaseStatus |-> "GOOD",
     status |-> "AVAILABLE", notes |-> Blank]

\* The case is good unless the form says otherwise.
ParsedKit(f) ==
    [kitCode |-> f.kitCode, admBarcode |-> OptionalText(f.admBarcode),
     suitcaseStatus |-> IF f.suitcaseStatus = Absent THEN "GOOD" ELSE f.suitcaseStatus,
     status |-> f.status, notes |-> OptionalText(f.notes)]

UpdatedKit(r, f) ==
    LET p == ParsedKit(f)
    IN  Unless(\/ p.kitCode = Blank \/ p.status = Absent
               \/ p.status # r.status /\ p.status \notin KitStatusOptions(r),
               {WrittenOver(r, p)})

CreatedKit(f) ==
    LET p == ParsedKit(f)
    IN  Unless(p.kitCode = Blank \/ p.status \notin {"AVAILABLE", "MAINTENANCE", "DAMAGED"},
               {WrittenOver([kind |-> "kit", filled |-> FALSE, booked |-> FALSE], p)})

AssetStatusOptions(r) ==
    CASE r.status \in WorkflowStatuses -> {r.status}
      [] r.status = "MAINTENANCE" ->
            IF r.maintained THEN {r.status} ELSE {r.status, "AVAILABLE", "DAMAGED"}
      [] OTHER ->
            {r.status, "AVAILABLE", "DAMAGED", "MISSING", "RETIRED"}
                \ ((IF r.maintained THEN {"AVAILABLE"} ELSE {})
                     \cup (IF r.inKit THEN {"RETIRED"} ELSE {}))

\* A category that is not active any more stays among the choices of its own
\* equipment.
AssetForm(r) ==
    [name |-> r.name, categoryId |-> r.categoryId, serialNumber |-> Shown(r.serialNumber),
     status |-> StatusSelect(r.status, AssetStatusOptions(r)),
     notes |-> Shown(r.notes)]

NewAssetForm ==
    [name |-> Blank, categoryId |-> Blank, serialNumber |-> Blank,
     status |-> "AVAILABLE", notes |-> Blank]

ParsedAsset(f) ==
    [name |-> f.name, categoryId |-> f.categoryId,
     serialNumber |-> OptionalText(f.serialNumber), status |-> f.status,
     notes |-> OptionalText(f.notes)]

UpdatedAsset(r, f) ==
    LET p == ParsedAsset(f)
    IN  Unless(\/ p.name = Blank \/ p.categoryId = Blank \/ p.status = Absent
               \/ p.status # r.status /\ p.status \notin AssetStatusOptions(r),
               {[WrittenOver(r, p) EXCEPT !.retiredCategory = @ /\ p.categoryId = r.categoryId]})

CreatedAsset(f) ==
    LET p == ParsedAsset(f)
    IN  Unless(\/ p.name = Blank \/ p.categoryId = Blank
               \/ p.status \notin {"AVAILABLE", "DAMAGED", "MISSING"},
               {WrittenOver([kind |-> "asset", inKit |-> FALSE, maintained |-> FALSE,
                             retiredCategory |-> FALSE], p)})

AccessoryForm(r) ==
    [accessoryTypeId |-> r.accessoryTypeId, label |-> Shown(r.label),
     quantity |-> r.quantity, isRequired |-> TickBox(r.isRequired)]

NewAccessoryForm ==
    [accessoryTypeId |-> Blank, label |-> Blank, quantity |-> 1, isRequired |-> "on"]

ParsedAccessory(f) ==
    [accessoryTypeId |-> f.accessoryTypeId, label |-> OptionalText(f.label),
     quantity |-> f.quantity, isRequired |-> Ticked(f.isRequired)]

SavedAccessory(r, f) ==
    LET p == ParsedAccessory(f)
    IN  Unless(p.accessoryTypeId = Blank \/ p.quantity \notin Quantities,
               {WrittenOver([kind |-> "accessory"], p)})

\* The membership of a piece of equipment in its kit; it is made by adding it.
MemberForm(r) ==
    [slotLabel |-> Shown(r.slotLabel), isRequired |-> IF r.isRequired THEN "true" ELSE "false"]

NewMemberForm == [slotLabel |-> Blank, isRequired |-> "true"]

\* (Fault) only the literal "true" is a yes.
ParsedMemberByTick(f) ==
    [slotLabel |-> OptionalText(f.slotLabel), isRequired |-> Ticked(f.isRequired)]

ParsedMember(f) ==
    [slotLabel |-> OptionalText(f.slotLabel), isRequired |-> f.isRequired # "false"]

SavedMember(r, f) == {WrittenOver([kind |-> "member"], ParsedMember(f))}

-----------------------------------------------------------------------------
(* Editors: the page shows the company of an external one and the department *)
(* of an internal one, and posts only what it shows.                         *)

ShownFor(type) == IF type = "EXTERNAL" THEN "company" ELSE "department"

EditorForm(r) ==
    [fullName |-> r.fullName, staffId |-> Shown(r.staffId), type |-> r.type,
     department |-> IF r.type = "INTERNAL" THEN Shown(r.department) ELSE Absent,
     company |-> IF r.type = "EXTERNAL" THEN Shown(r.company) ELSE Absent]

NewEditorForm ==
    [fullName |-> Blank, staffId |-> Blank, type |-> "INTERNAL",
     department |-> Blank, company |-> Absent]

ParsedEditor(f) ==
    [fullName |-> f.fullName, staffId |-> OptionalText(f.staffId), type |-> f.type,
     department |-> OptionalText(f.department), company |-> OptionalText(f.company)]

UpdatedEditor(r, f) ==
    LET p == ParsedEditor(f)
    IN  Unless(\/ p.fullName = Blank
               \/ p.type = "EXTERNAL" /\ r.type = "INTERNAL" /\ r.linked,
               {WrittenOver(r, p)})

CreatedEditor(f) ==
    LET p == ParsedEditor(f)
    IN  Unless(p.fullName = Blank,
               {WrittenOver([kind |-> "editor", linked |-> l], p) :
                  l \in IF p.type = "INTERNAL" THEN BOOLEAN ELSE {FALSE}})

-----------------------------------------------------------------------------
(* Administration: categories, applications, the checks of a template *)

CategoryForm(r) == [name |-> r.name, code |-> r.code, sortOrder |-> r.sortOrder]
NewCategoryForm == [name |-> Blank, code |-> Blank, sortOrder |-> 0]

\* A new category without a code takes one from its name; an edited one keeps its own.
SavedCategory(r, f) ==
    Unless(f.name = Blank \/ f.sortOrder \notin SortOrders,
           {[kind |-> "category", name |-> f.name, sortOrder |-> f.sortOrder,
             code |-> IF f.code # Blank THEN f.code
                     ELSE IF r = NoRecord THEN f.name ELSE r.code]})

SoftwareForm(r) == [name |-> r.name, version |-> Shown(r.version), sortOrder |-> r.sortOrder]
NewSoftwareForm == [name |-> Blank, version |-> Blank, sortOrder |-> 0]

\* Here a sort order out of bounds is taken for none.
Sorted(p) == IF p \in SortOrders THEN p ELSE 0

SavedSoftware(r, f) ==
    Unless(f.name = Blank,
           {[kind |-> "software", name |-> f.name,
             version |-> OptionalText(f.version), sortOrder |-> Sorted(f.sortOrder)]})

ItemForm(r) ==
    [label |-> r.label, description |-> Shown(r.description), phase |-> r.phase,
     isRequired |-> TickBox(r.isRequired), sortOrder |-> r.sortOrder]
NewItemForm ==
    [label |-> Blank, description |-> Blank, phase |-> "BOTH", isRequired |-> "on",
     sortOrder |-> 0]

SavedItem(r, f) ==
    Unless(f.label = Blank,
           {[kind |-> "item", label |-> f.label, phase |-> f.phase,
             description |-> OptionalText(f.description),
             isRequired |-> Ticked(f.isRequired), sortOrder |-> Sorted(f.sortOrder)]})

-----------------------------------------------------------------------------
(* The form of a record, and what its fields mean *)

FilledFrom(r) ==
    CASE r.kind = "booking"   -> BookingForm(r)
      [] r.kind = "kit"       -> KitForm(r)
      [] r.kind = "asset"     -> AssetForm(r)
      [] r.kind = "accessory" -> AccessoryForm(r)
      [] r.kind = "member"    -> MemberForm(r)
      [] r.kind = "editor"    -> EditorForm(r)
      [] r.kind = "category"  -> CategoryForm(r)
      [] r.kind = "software"  -> SoftwareForm(r)
      [] r.kind = "item"      -> ItemForm(r)

EmptyForm ==
    CASE kind = "booking"   -> NewBookingForm
      [] kind = "kit"       -> NewKitForm
      [] kind = "asset"     -> NewAssetForm
      [] kind = "accessory" -> NewAccessoryForm
      [] kind = "member"    -> NewMemberForm
      [] kind = "editor"    -> NewEditorForm
      [] kind = "category"  -> NewCategoryForm
      [] kind = "software"  -> NewSoftwareForm
      [] kind = "item"      -> NewItemForm

\* What the pages read off the record: the columns, and for the requester the
\* profile behind them.
Reads(r) == IF r.kind = "booking" THEN RequesterOf(r) ELSE r

-----------------------------------------------------------------------------
(* Actions *)

FormsInit ==
    /\ kind \in Kinds /\ zone \in Zones
    /\ row = NoRecord /\ profileName = "profile"
    /\ form = NoRecord /\ opened = NoRecord /\ typed = {} /\ outcome = "closed" /\ saves = 0

\* A booking made before the requester was its own record names a profile only.
LegacyBooking ==
    /\ kind = "booking" /\ row = NoRecord /\ outcome = "closed"
    /\ \E w, v \in Readings, status \in {"DRAFT", "READY_FOR_HANDOVER"} :
          /\ ZonedLocalToDate(zone, w) < ZonedLocalToDate(zone, v)
          /\ row' = [kind |-> "booking", kitId |-> "kit", editorId |-> "profile",
                     requesterName |-> Null, requesterStaffId |-> Null,
                     projectName |-> Null, notes |-> Null,
                     bookingStart |-> ZonedLocalToDate(zone, w),
                     bookingEnd |-> ZonedLocalToDate(zone, v),
                     collectionDate |-> NoCollection,
                     expectedReturnDate |-> ZonedLocalToDate(zone, v),
                     status |-> status, free |-> TRUE]
    /\ UNCHANGED <<kind, zone, profileName, form, opened, typed, outcome, saves>>

\* A page with the form is opened: blank for a new record, filled for one there
\* is, unless a booking is past editing.
OpenForm ==
    /\ outcome # "editing" /\ saves < MaxSaves
    /\ row.kind = "booking" => EditScopeFor(row.status) # "none"
    /\ form' = IF row = NoRecord THEN EmptyForm ELSE FilledFrom(row)
    /\ opened' = Reads(row) /\ typed' = {} /\ outcome' = "editing"
    /\ UNCHANGED <<kind, zone, row, profileName, saves>>

\* What can be typed into a field: something else, or nothing; another reading,
\* another number, another choice the control offers.
Choices(field) ==
    CASE field \in {"bookingStart", "bookingEnd", "expectedReturnDate"} -> Readings
      [] field = "collectionDate" -> Readings \cup {NoCollection}
      [] field = "sortOrder"      -> {0, 999, 1000}
      [] field = "quantity"       -> {0, 1, 99, 100}
      [] field = "isRequired"     -> IF kind = "member" THEN {"true", "false"} ELSE {"on", Absent}
      [] field = "type"           -> {"INTERNAL", "EXTERNAL"}
      [] field = "phase"          -> {"HANDOVER", "BOTH"}
      [] field = "suitcaseStatus" -> {"GOOD", "DAMAGED"}
      [] field = "kitId"          -> {"kit", "other"}
      [] field = "status"         ->
            IF form.status = Absent THEN {}
            ELSE IF row = NoRecord THEN {"AVAILABLE", "DAMAGED"}
            ELSE IF kind = "kit" THEN KitStatusOptions(opened) ELSE AssetStatusOptions(opened)
      [] OTHER                    -> IF form[field] = Absent THEN {} ELSE {Blank, "typed"}

\* A control stands there that can be typed into: the schedule and the kit of a
\* booking that is set aside are read-only.
Writable(field) ==
    ~(/\ kind = "booking" /\ opened # NoRecord
      /\ EditScopeFor(opened.status) = "restricted" /\ field \in Structural)

\* With the type of an editor the page shows the other field, blank or as it was.
Retyped(f, type) ==
    [f EXCEPT !.type = type,
              !.department = IF type = "EXTERNAL" THEN Absent ELSE IF @ = Absent
                             THEN (IF opened = NoRecord THEN Blank ELSE Shown(opened.department)) ELSE @,
              !.company = IF type = "INTERNAL" THEN Absent ELSE IF @ = Absent
                          THEN (IF opened = NoRecord THEN Blank ELSE Shown(opened.company)) ELSE @]

\* What a new record asks for.
Required ==
    ({"requesterName", "projectName", "kitCode", "name", "categoryId", "accessoryTypeId",
      "fullName"} \cup (IF kind = "item" THEN {"label"} ELSE {})) \cap DOMAIN form

TypeField ==
    /\ outcome = "editing"
    /\ Cardinality(IF Required \subseteq typed /\ opened = NoRecord THEN typed \ Required
                   ELSE typed) < MaxTyped
    /\ \E field \in DOMAIN form \ typed :
          /\ Writable(field)
          /\ \E v \in Choices(field) :
                /\ v # form[field]
                /\ form' = IF field = "type" THEN Retyped(form, v)
                           ELSE [form EXCEPT ![field] = v]
          /\ typed' = typed \cup {field}
                        \cup (IF field = "type" THEN {"department", "company"} ELSE {})
    /\ UNCHANGED <<kind, zone, row, profileName, opened, outcome, saves>>

\* The person fills what a new record asks for.
FillRequired ==
    /\ outcome = "editing" /\ opened = NoRecord /\ typed = {}
    /\ Required # {} /\ typed' = Required
    /\ form' = [g \in DOMAIN form |-> IF g \in Required THEN "first" ELSE form[g]]
    /\ UNCHANGED <<kind, zone, row, profileName, opened, outcome, saves>>

\* What the service may write for the form.
Written ==
    CASE kind = "booking"   -> IF row = NoRecord THEN CreatedBooking(form) ELSE UpdatedBooking(row, form)
      [] kind = "kit"       -> IF row = NoRecord THEN CreatedKit(form) ELSE UpdatedKit(row, form)
      [] kind = "asset"     -> IF row = NoRecord THEN CreatedAsset(form) ELSE UpdatedAsset(row, form)
      [] kind = "accessory" -> SavedAccessory(row, form)
      [] kind = "member"    -> SavedMember(row, form)
      [] kind = "editor"    -> IF row = NoRecord THEN CreatedEditor(form) ELSE UpdatedEditor(row, form)
      [] kind = "category"  -> SavedCategory(row, form)
      [] kind = "software"  -> SavedSoftware(row, form)
      [] kind = "item"      -> SavedItem(row, form)

SaveForm ==
    /\ outcome = "editing" /\ saves' = saves + 1
    /\ \/ row' \in Written /\ outcome' = "saved"
       \/ Written = {} /\ outcome' = "refused" /\ UNCHANGED row
    /\ UNCHANGED <<kind, zone, profileName, form, opened, typed>>

\* Meanwhile the workflows move the record, other people change it, and the
\* profile behind a legacy booking gets another name.
MoveBooking ==
    /\ row.kind = "booking"
    /\ \E status \in {"RESERVED", "READY_FOR_HANDOVER", "CHECKED_OUT"}, free \in BOOLEAN :
          row' = [row EXCEPT !.status = status, !.free = free]

MoveKit ==
    /\ row.kind = "kit"
    /\ \E status \in {"AVAILABLE", "RESERVED", "CHECKED_OUT"}, booked \in BOOLEAN :
          /\ status \in WorkflowStatuses => booked
          /\ row' = [row EXCEPT !.status = status, !.booked = booked,
                                !.filled = @ \/ status \in WorkflowStatuses]

MoveAsset ==
    /\ row.kind = "asset"
    /\ \E status \in {"AVAILABLE", "CHECKED_OUT", "MAINTENANCE"} :
          row' = [row EXCEPT !.status = status, !.maintained = status = "MAINTENANCE",
                             !.inKit = status = "CHECKED_OUT"]

RetireCategory ==
    /\ row.kind = "asset" /\ row' = [row EXCEPT !.retiredCategory = TRUE]

MoveOn ==
    /\ outcome \in {"editing", "saved"}
    /\ MoveBooking \/ MoveKit \/ MoveAsset \/ RetireCategory
    /\ row' # row
    /\ UNCHANGED <<kind, zone, profileName, form, opened, typed, outcome, saves>>

RenameProfile ==
    /\ row.kind = "booking" /\ row.editorId # Null /\ profileName' = "renamed"
    /\ UNCHANGED <<kind, zone, row, form, opened, typed, outcome, saves>>

FormsNext ==
    \/ LegacyBooking \/ OpenForm \/ TypeField \/ FillRequired \/ SaveForm
    \/ MoveOn \/ RenameProfile

FormsSpec == FormsInit /\ [][FormsNext]_formVars

-----------------------------------------------------------------------------
(* Properties *)

\* The services keep what they had where a form was emptied of it.
Kept(g) ==
    \/ kind = "booking" /\ g \in {"requesterName", "projectName"}
    \/ kind = "category" /\ g = "code"

\* What is written says what was typed: an instant that reads as the reading
\* does (one the clock skips has none), a tick as a yes, an empty field as none.
\* An application or a check outside the sort orders goes to the front.
Says(g, v, r) ==
    CASE g \in {"bookingStart", "bookingEnd", "collectionDate", "expectedReturnDate"} ->
            IF v = NoCollection THEN r[g] = NoCollection
            ELSE (\E t \in {v - zone.before, v - zone.after} : WallClock(zone, t) = v)
                    => WallClock(zone, r[g]) = v
      [] g = "isRequired"      -> r[g] = (v \in {"on", "true"})
      [] g = "sortOrder"       -> r[g] = IF v \in SortOrders THEN v ELSE 0
      [] g = "quantity"        -> r[g] = v
      [] OTHER                 -> IF v \in {Blank, Absent} THEN r[g] = Null \/ Kept(g) ELSE r[g] = v

\* A kit or a piece of equipment with one status it may have: the select is
\* disabled and posts nothing, which the schema refuses, whatever was typed.
HeldByWorkflow == kind \in {"kit", "asset"} /\ form.status = Absent

\* Saving a form changes what was typed into it, to what was typed, and nothing
\* else that nobody changed since the page was opened; and a form saved as it
\* was opened is accepted.
FaithfulSave ==
    outcome = "editing" /\ outcome' \in {"saved", "refused"} =>
        LET before == Reads(row)
            after  == Reads(row')
        IN  IF outcome' = "saved"
            THEN \A g \in DOMAIN form :
                    IF g \in typed
                    THEN Says(g, form[g], after)
                    ELSE row # NoRecord /\ before[g] = opened[g] => after[g] = before[g]
            ELSE typed = {} /\ before = opened /\ opened # NoRecord => HeldByWorkflow

\* So does every submission of every form of the desk.
SavesAreFaithful == [][FaithfulSave]_formVars
=============================================================================
