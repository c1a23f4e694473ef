----------------------------- MODULE FormProofs -----------------------------
(***************************************************************************)
(* Proofs about Forms, for every time zone with one change of its clock,   *)
(* any readings people type and any number of fields and submissions.      *)
(*                                                                         *)
(* A field that nobody touched still shows what the page read (FormsInv),  *)
(* what shows a column is read back as that column (ReadBack), and what    *)
(* was typed is written as it says (ColumnSays).                           *)
(***************************************************************************)
EXTENDS Forms, TLAPS


\* The fields of a form, and how they are read back.
Texts == {"requesterName", "requesterStaffId", "projectName", "notes", "kitCode", "admBarcode",
          "name", "categoryId", "serialNumber", "accessoryTypeId", "label", "slotLabel",
          "fullName", "staffId", "department", "company", "code", "version", "description"}
Times == {"bookingStart", "bookingEnd", "collectionDate", "expectedReturnDate"}
Picks == {"kitId", "suitcaseStatus", "type", "phase"}

BookingFields == {"kitId", "requesterName", "requesterStaffId", "projectName", "notes"} \cup Times

Fields(k) ==
    CASE k = "booking"   -> BookingFields
      [] k = "kit"       -> {"kitCode", "admBarcode", "suitcaseStatus", "status", "notes"}
      [] k = "asset"     -> {"name", "categoryId", "serialNumber", "status", "notes"}
      [] k = "accessory" -> {"accessoryTypeId", "label", "quantity", "isRequired"}
      [] k = "member"    -> {"slotLabel", "isRequired"}
      [] k = "editor"    -> {"fullName", "staffId", "type", "department", "company"}
      [] k = "category"  -> {"name", "code", "sortOrder"}
      [] k = "software"  -> {"name", "version", "sortOrder"}
      [] k = "item"      -> {"label", "description", "phase", "isRequired", "sortOrder"}

Columns(k) ==
    Fields(k) \cup {"kind"}
      \cup CASE k = "booking" -> {"editorId", "status", "free"}
             [] k = "kit"     -> {"filled", "booked"}
             [] k = "asset"   -> {"inKit", "maintained", "retiredCategory"}
             [] k = "editor"  -> {"linked"}
             [] OTHER         -> {}

\* The columns no record of the kind is without.
NeverNull(k) ==
    CASE k = "kit"       -> {"kitCode"}
      [] k = "asset"     -> {"name", "categoryId"}
      [] k = "accessory" -> {"accessoryTypeId"}
      [] k = "editor"    -> {"fullName"}
      [] k = "category"  -> {"name", "code"}
      [] k = "software"  -> {"name"}
      [] k = "item"      -> {"label"}
      [] OTHER           -> {}

\* The instants readings stand for, and what the clock says at them.
Moments == {ZonedLocalToDate(zone, w) : w \in Readings}
Walls   == Readings \cup {WallClock(zone, t) : t \in Moments}

\* What a column may hold.
Holds(g, x) ==
    /\ g \in Texts => x \notin {Blank, Absent}
    /\ g \in Times => x \in Moments \/ (g = "collectionDate" /\ x = NoCollection)
    /\ g \in Picks \cup {"status"} => x \notin {Blank, Absent, Null}
    /\ g = "type" => x \in {"INTERNAL", "EXTERNAL"}
    /\ g = "isRequired" => x \in BOOLEAN
    /\ g = "sortOrder" => x \in SortOrders
    /\ g = "quantity" => x \in Quantities

\* What a field of the form may hold.
Enters(g, v) ==
    /\ g \in Texts => v # Null
    /\ g \in Texts \ {"department", "company"} => v # Absent
    /\ g \in Times => v \in Walls \/ (g \in {"collectionDate", "expectedReturnDate"} /\ v = NoCollection)
    /\ g \in Picks => v \notin {Blank, Absent, Null}
    /\ g = "status" => v \notin {Blank, Null}
    /\ g = "type" => v \in {"INTERNAL", "EXTERNAL"}
    /\ g = "isRequired" => v \in IF kind = "member" THEN {"true", "false"} ELSE {"on", Absent}

\* What a field holds that shows x.
Shows(g, v, x) ==
    /\ g \in Texts \ {"department", "company"} => v = Shown(x)
    /\ g \in Times => v = IF x = NoCollection THEN NoCollection ELSE WallClock(zone, x)
    /\ g \in Picks \cup {"sortOrder", "quantity"} => v = x
    /\ g = "status" => v \in {Absent, x}
    /\ g = "isRequired" => v = IF kind = "member" THEN (IF x THEN "true" ELSE "false") ELSE TickBox(x)

\* What is written for a field, and whether nothing is.
Column(g, v) ==
    CASE g \in Texts      -> OptionalText(v)
      [] g \in Times      -> IF v = NoCollection THEN NoCollection ELSE ZonedLocalToDate(zone, v)
      [] g = "isRequired" -> v \in {"on", "true"}
      [] g = "sortOrder"  -> IF v \in SortOrders THEN v ELSE 0
      [] OTHER            -> v

-----------------------------------------------------------------------------
(* Readings and instants *)

\* A reading the clock shows is found.
LEMMA LookupFinds ==
    ASSUME NEW z \in [change : Int, before : Int, after : Int], NEW v \in Int,
           NEW t \in Int, WallClock(z, t) = v
    PROVE  WallClock(z, ZonedLocalToDate(z, v)) = v
BY DEF WallClock, ZonedLocalToDate, OffsetAt

LEMMA LookupIsInt ==
    ASSUME NEW z \in [change : Int, before : Int, after : Int], NEW v \in Int
    PROVE  ZonedLocalToDate(z, v) \in Int /\ WallClock(z, v) \in Int
BY DEF WallClock, ZonedLocalToDate, OffsetAt

\* An instant some reading stands for is shown as one that stands for it, in the
\* skipped and in the repeated hour too.
LEMMA LookupReturns ==
    ASSUME NEW z \in [change : Int, before : Int, after : Int], NEW w \in Int
    PROVE  ZonedLocalToDate(z, WallClock(z, ZonedLocalToDate(z, w))) = ZonedLocalToDate(z, w)
BY DEF WallClock, ZonedLocalToDate, OffsetAt

LEMMA MomentsReturn ==
    ASSUME zone \in Zones, NEW t \in Moments
    PROVE  /\ t \in Int /\ t # NoCollection
           /\ WallClock(zone, t) \in Walls \ {NoCollection}
           /\ ZonedLocalToDate(zone, WallClock(zone, t)) = t
<1>1. PICK w \in Readings : t = ZonedLocalToDate(zone, w)
  BY DEF Moments
<1>2. zone \in [change : Int, before : Int, after : Int] /\ w \in Int
  BY FormsAssumption
<1>3. NoCollection \notin {t, WallClock(zone, t)}
  BY <1>1, FormsAssumption DEF ToZonedLocalInput
<1> QED
  BY <1>1, <1>2, <1>3, LookupReturns, LookupIsInt DEF Walls

LEMMA WallsLead ==
    ASSUME zone \in Zones, NEW v \in Walls
    PROVE  v # NoCollection /\ v \in Int /\ ZonedLocalToDate(zone, v) \in Moments
<1>1. zone \in [change : Int, before : Int, after : Int]
  BY FormsAssumption
<1>2. CASE v \in Readings
  BY <1>2, FormsAssumption DEF Moments
<1>3. CASE v \in {WallClock(zone, t) : t \in Moments}
  <2>1. PICK t \in Moments : v = WallClock(zone, t)
    BY <1>3
  <2> QED
    BY <1>1, <2>1, MomentsReturn, LookupIsInt
<1> QED
  BY <1>2, <1>3 DEF Walls

-----------------------------------------------------------------------------
(* What is read back *)

\* A field that shows what a column holds is read back as that.
LEMMA ReadBack ==
    ASSUME zone \in Zones, NEW g \in Texts \cup Times \cup Picks \cup {"isRequired", "sortOrder", "quantity"},
           NEW x, Holds(g, x), NEW v, Shows(g, v, x), g \notin {"department", "company"}
    PROVE  Column(g, v) = x
<1>1. CASE g \in Texts
  <2>1. Column(g, v) = OptionalText(v)
    BY <1>1 DEF Column, Texts, Times
  <2>2. v = Shown(x) /\ x \notin {Blank, Absent}
    BY <1>1 DEF Holds, Shows
  <2> QED
    BY <2>1, <2>2 DEF Shown, OptionalText, Blank, Absent, Null
<1>2. CASE g \in Times
  <2>1. g \notin Texts
    BY <1>2 DEF Times, Texts
  <2>2. Column(g, v) = IF v = NoCollection THEN NoCollection ELSE ZonedLocalToDate(zone, v)
    BY <1>2, <2>1 DEF Column, Times
  <2>3. CASE x = NoCollection
    BY <1>2, <2>2, <2>3 DEF Shows
  <2>4. CASE x \in Moments
    BY <1>2, <2>2, <2>4, MomentsReturn DEF Shows
  <2> QED
    BY <1>2, <2>3, <2>4 DEF Holds
<1>3. CASE g \in Picks \cup {"quantity"}
  BY <1>3 DEF Picks, Texts, Times, Shows, Column
<1>4. CASE g = "isRequired"
  <2>1. Column(g, v) = (v \in {"on", "true"})
    BY <1>4 DEF Column, Texts, Times
  <2> QED
    BY <1>4, <2>1 DEF Holds, Shows, TickBox, Absent
<1>5. CASE g = "sortOrder"
  BY <1>5 DEF Column, Texts, Times, Shows, Holds
<1> QED
  BY <1>1, <1>2, <1>3, <1>4, <1>5

\* What is written says what was typed.
LEMMA ColumnSays ==
    ASSUME zone \in Zones, NEW g, NEW v, Enters(g, v), NEW r, r[g] = Column(g, v),
           g \in Times => v \in Readings \/ (g = "collectionDate" /\ v = NoCollection),
           g \in Texts \cup Times \cup Picks \cup {"status", "isRequired", "sortOrder", "quantity"},
           g = "status" => v # Absent
    PROVE  Says(g, v, r)
<1>1. CASE g \in Texts
  <2>1. /\ g \notin {"bookingStart", "bookingEnd", "collectionDate", "expectedReturnDate"}
        /\ g # "isRequired" /\ g # "sortOrder" /\ g # "quantity"
    BY <1>1 DEF Texts
  <2>2. r[g] = OptionalText(v)
    BY <1>1 DEF Column, Texts, Times
  <2>3. Says(g, v, r) <=> IF v \in {Blank, Absent} THEN r[g] = Null \/ Kept(g) ELSE r[g] = v
    BY <2>1 DEF Says
  <2> QED
    BY <2>2, <2>3 DEF OptionalText
<1>2. CASE g \in Times
  <2>1. Column(g, v) = IF v = NoCollection THEN NoCollection ELSE ZonedLocalToDate(zone, v)
    BY <1>2 DEF Column, Times, Texts
  <2>2. Says(g, v, r) <=> IF v = NoCollection THEN r[g] = NoCollection
                          ELSE (\E t \in {v - zone.before, v - zone.after} : WallClock(zone, t) = v)
                                  => WallClock(zone, r[g]) = v
    BY <1>2 DEF Says, Times
  <2>3. CASE v # NoCollection
    <3>1. zone \in [change : Int, before : Int, after : Int] /\ v \in Int
      BY <1>2, <2>3, FormsAssumption
    <3>2. v - zone.before \in Int /\ v - zone.after \in Int
      BY <3>1
    <3>3. ASSUME NEW t \in {v - zone.before, v - zone.after}, WallClock(zone, t) = v
          PROVE  WallClock(zone, ZonedLocalToDate(zone, v)) = v
      BY <3>1, <3>2, <3>3, LookupFinds
    <3> QED
      BY <2>1, <2>2, <2>3, <3>3
  <2> QED
    BY <2>1, <2>2, <2>3
<1>3. CASE g \in Picks \cup {"status"}
  <2>1. g \notin Texts \cup Times \cup {"isRequired", "sortOrder", "quantity"}
    BY <1>3 DEF Picks, Texts, Times
  <2>2. r[g] = v
    BY <2>1 DEF Column
  <2>3. v \notin {Blank, Absent}
    BY <1>3 DEF Enters
  <2> QED
    BY <2>1, <2>2, <2>3 DEF Says, Times
<1>4. CASE g \in {"isRequired", "sortOrder", "quantity"}
  BY <1>4 DEF Says, Column, Texts, Times
<1> QED
  BY <1>1, <1>2, <1>3, <1>4

\* What is written for a field, a column may hold.
LEMMA ColumnHolds ==
    ASSUME zone \in Zones, NEW g, NEW v, Enters(g, v),
           g \in Texts \cup Times \cup Picks \cup {"status", "isRequired", "sortOrder", "quantity"},
           g = "status" => v # Absent, g = "quantity" => v \in Quantities,
           g = "expectedReturnDate" => v # NoCollection
    PROVE  Holds(g, Column(g, v))
<1>1. CASE g \in Texts
  <2>1. Column(g, v) = OptionalText(v)
    BY <1>1 DEF Column, Texts, Times
  <2>2. OptionalText(v) \notin {Blank, Absent}
    BY DEF OptionalText, Blank, Absent, Null
  <2> QED
    BY <1>1, <2>1, <2>2 DEF Holds, Texts, Times, Picks
<1>2. CASE g \in Times
  <2>1. Column(g, v) = IF v = NoCollection THEN NoCollection ELSE ZonedLocalToDate(zone, v)
    BY <1>2 DEF Column, Times, Texts
  <2>2. Column(g, v) \in Moments \/ (g = "collectionDate" /\ Column(g, v) = NoCollection)
    BY <1>2, <2>1, WallsLead DEF Enters
  <2> QED
    BY <1>2, <2>2 DEF Holds, Texts, Times, Picks
<1>3. CASE g \in Picks \cup {"status"}
  <2>1. Column(g, v) = v
    BY <1>3 DEF Column, Texts, Times, Picks
  <2> QED
    BY <1>3, <2>1 DEF Holds, Enters, Texts, Times, Picks
<1>4. CASE g = "isRequired"
  <2>1. Column(g, v) = (v \in {"on", "true"})
    BY <1>4 DEF Column, Texts, Times
  <2>2. Column(g, v) \in BOOLEAN
    BY <2>1
  <2> QED
    BY <1>4, <2>2 DEF Holds, Texts, Times, Picks
<1>5. CASE g = "sortOrder"
  <2>1. Column(g, v) = IF v \in SortOrders THEN v ELSE 0
    BY <1>5 DEF Column, Texts, Times
  <2>2. 0 \in SortOrders
    BY DEF SortOrders
  <2> QED
    BY <1>5, <2>1, <2>2 DEF Holds, Texts, Times, Picks
<1>6. CASE g = "quantity"
  <2>1. Column(g, v) = v
    BY <1>6 DEF Column, Texts, Times
  <2> QED
    BY <1>6, <2>1 DEF Holds, Texts, Times, Picks
<1> QED
  BY <1>1, <1>2, <1>3, <1>4, <1>5, <1>6

-----------------------------------------------------------------------------
(* Records and the forms that show them *)

ScheduleOf(r) == [start |-> r.bookingStart, end |-> r.bookingEnd,
                  collection |-> r.collectionDate, expected |-> r.expectedReturnDate]

\* A record as it is stored, and as a page reads it.
GoodRow(r) ==
    /\ DOMAIN r = Columns(kind) /\ r.kind = kind
    /\ \A g \in Fields(kind) : Holds(g, r[g])
    /\ \A g \in NeverNull(kind) : r[g] # Null
    /\ kind \in {"kit", "asset", "booking"} => r.status \notin {Blank, Absent, Null}
    /\ kind = "booking" =>
         /\ ScheduleErrors(ScheduleOf(r)) = {}
         /\ r.editorId = Null => r.requesterName # Null /\ r.projectName # Null
    /\ kind = "editor" =>
         /\ r.type = "EXTERNAL" => r.department = Null
         /\ r.type = "INTERNAL" => r.company = Null

\* The fields nobody touched show what the page read.
ShowsTheRecord ==
    /\ GoodRow(opened)
    /\ kind = "booking" =>
         /\ EditScopeFor(opened.status) # "none"
         /\ opened.requesterName = Null => opened.editorId = Null
    /\ \A g \in Fields(kind) \ typed : Shows(g, form[g], opened[g])
    /\ kind = "editor" =>
         /\ "department" \notin typed =>
              form.department = IF opened.type = "INTERNAL" THEN Shown(opened.department) ELSE Absent
         /\ "company" \notin typed =>
              form.company = IF opened.type = "EXTERNAL" THEN Shown(opened.company) ELSE Absent

Editing ==
    /\ opened = NoRecord <=> row = NoRecord
    /\ DOMAIN form = Fields(kind)
    /\ \A g \in Fields(kind) : Enters(g, form[g])
    /\ \A g \in Fields(kind) \cap typed \cap Times :
         form[g] \in Readings \/ (g = "collectionDate" /\ form[g] = NoCollection)
    /\ kind = "editor" =>
         /\ form.type = "EXTERNAL" => form.department = Absent
         /\ form.type = "INTERNAL" => form.company = Absent
    /\ opened # NoRecord => ShowsTheRecord

FormsInv ==
    /\ kind \in Kinds /\ zone \in Zones /\ profileName \in {"profile", "renamed"}
    /\ row = NoRecord \/ GoodRow(row)
    /\ outcome = "editing" => Editing

-----------------------------------------------------------------------------
(* What a service writes *)

\* A field the service does not empty.
Stays(g, r) ==
    Kept(g) /\ form[g] = Blank /\ (row # NoRecord => Reads(r)[g] = Reads(row)[g])

Wrote(r) ==
    /\ GoodRow(r)
    /\ \A g \in Fields(kind) :
         g \in typed \/ row # NoRecord =>
           \/ Reads(r)[g] = Column(g, form[g]) /\ (g = "status" => form[g] # Absent)
           \/ Stays(g, r)

\* Where every field is written as it is read.
Plainly(r) ==
    /\ DOMAIN r = Columns(kind) /\ r.kind = kind
    /\ \A g \in Fields(kind) : r[g] = Column(g, form[g])
    /\ "status" \in Fields(kind) => form.status # Absent
    /\ "quantity" \in Fields(kind) => form.quantity \in Quantities
    /\ \A g \in NeverNull(kind) : r[g] # Null

LEMMA FieldsAreKnown ==
    ASSUME kind \in Kinds
    PROVE  /\ Fields(kind) \subseteq Texts \cup Times \cup Picks \cup {"status", "isRequired", "sortOrder", "quantity"}
           /\ kind # "booking" => "expectedReturnDate" \notin Fields(kind)
BY FormsAssumption DEF RecordKinds, Fields, BookingFields, Texts, Times, Picks

LEMMA PlainlyWritten ==
    ASSUME kind \in Kinds \ {"booking"}, zone \in Zones, Editing, NEW r, Plainly(r)
    PROVE  Wrote(r)
<1>1. \A g \in Fields(kind) : Holds(g, r[g])
  BY FieldsAreKnown, ColumnHolds DEF Editing, Plainly
<1>2. Reads(r) = r
  BY DEF Reads, Plainly
<1>3. kind = "editor" => /\ r.type = form.type
                         /\ r.department = OptionalText(form.department)
                         /\ r.company = OptionalText(form.company)
  BY DEF Plainly, Fields, Column, Texts, Times
<1>4. OptionalText(Absent) = Null
  BY DEF OptionalText
<1>5. kind \in {"kit", "asset"} => r.status \notin {Blank, Absent, Null}
  <2>1. kind \in {"kit", "asset"} => "status" \in Fields(kind)
    BY DEF Fields
  <2> QED
    BY <1>1, <2>1 DEF Holds
<1>6. GoodRow(r)
  BY <1>1, <1>3, <1>4, <1>5 DEF GoodRow, Plainly, Editing
<1> QED
  BY <1>2, <1>6 DEF Wrote, Plainly

\* A text that has to be there is written as it stands.
LEMMA TextStands ==
    ASSUME NEW v, v \notin {Blank, Absent}
    PROVE  OptionalText(v) = v
BY DEF OptionalText

LEMMA KitIsWritten ==
    ASSUME kind \in Kinds, kind = "kit", zone \in Zones, Editing, row = NoRecord \/ GoodRow(row),
           NEW r \in Written
    PROVE  Plainly(r)
<1> DEFINE p == ParsedKit(form)
<1>1. /\ Fields(kind) = {"kitCode", "admBarcode", "suitcaseStatus", "status", "notes"}
      /\ Columns(kind) = Fields(kind) \cup {"kind", "filled", "booked"}
      /\ NeverNull(kind) = {"kitCode"}
  BY DEF Fields, Columns, NeverNull
<1>2. PICK q : /\ r = WrittenOver(q, p) /\ q.kind = "kit"
               /\ DOMAIN q \in {Columns(kind), {"kind", "filled", "booked"}}
               /\ p.kitCode # Blank /\ p.status # Absent
  <2>1. CASE row = NoRecord
    <3>1. r \in CreatedKit(form)
      BY <2>1 DEF Written
    <3>2. r = WrittenOver([kind |-> "kit", filled |-> FALSE, booked |-> FALSE], p)
          /\ p.kitCode # Blank /\ p.status \in {"AVAILABLE", "MAINTENANCE", "DAMAGED"}
      BY <3>1 DEF CreatedKit, Unless
    <3> QED
      BY <3>2 DEF Absent
  <2>2. CASE row # NoRecord
    <3>1. r \in UpdatedKit(row, form)
      BY <2>2 DEF Written
    <3>2. r = WrittenOver(row, p) /\ p.kitCode # Blank /\ p.status # Absent
      BY <3>1 DEF UpdatedKit, Unless
    <3> QED
      BY <2>2, <3>2 DEF GoodRow
  <2> QED
    BY <2>1, <2>2
<1>3. /\ DOMAIN p = Fields(kind)
      /\ p.kitCode = form.kitCode /\ p.admBarcode = OptionalText(form.admBarcode)
      /\ p.suitcaseStatus = IF form.suitcaseStatus = Absent THEN "GOOD" ELSE form.suitcaseStatus
      /\ p.status = form.status /\ p.notes = OptionalText(form.notes)
  BY <1>1 DEF ParsedKit
<1>4. form.kitCode \notin {Absent, Null} /\ form.suitcaseStatus # Absent
  BY <1>1 DEF Editing, Enters, Texts, Picks
<1>5. \A g \in Fields(kind) : p[g] = Column(g, form[g])
  BY <1>1, <1>2, <1>3, <1>4, TextStands DEF Column, Texts, Times
<1>6. DOMAIN r = Columns(kind) /\ r.kind = kind /\ \A g \in Fields(kind) : r[g] = p[g]
  <2>1. /\ DOMAIN r = DOMAIN p \cup DOMAIN q
        /\ \A g \in DOMAIN p : r[g] = p[g]
        /\ \A g \in DOMAIN q \ DOMAIN p : r[g] = q[g]
    <3> HIDE DEF p
    <3> QED
      BY <1>2 DEF WrittenOver
  <2>2. "kind" \in DOMAIN q \ DOMAIN p /\ DOMAIN p \cup DOMAIN q = Columns(kind)
    BY <1>1, <1>2, <1>3
  <2>3. r.kind = q.kind
    BY <2>1, <2>2
  <2>4. \A g \in Fields(kind) : r[g] = p[g]
    BY <1>3, <2>1
  <2> QED
    BY <1>2, <2>1, <2>2, <2>3, <2>4
<1> QED
  BY <1>1, <1>2, <1>3, <1>4, <1>5, <1>6 DEF Plainly

LEMMA AssetIsWritten ==
    ASSUME kind \in Kinds, kind = "asset", zone \in Zones, Editing, row = NoRecord \/ GoodRow(row),
           NEW r \in Written
    PROVE  Plainly(r)
<1> DEFINE p == ParsedAsset(form)
<1>1. /\ Fields(kind) = {"name", "categoryId", "serialNumber", "status", "notes"}
      /\ Columns(kind) = Fields(kind) \cup {"kind", "inKit", "maintained", "retiredCategory"}
      /\ NeverNull(kind) = {"name", "categoryId"}
  BY DEF Fields, Columns, NeverNull
<1>2. /\ DOMAIN p = Fields(kind)
      /\ p.name = form.name /\ p.categoryId = form.categoryId
      /\ p.serialNumber = OptionalText(form.serialNumber)
      /\ p.status = form.status /\ p.notes = OptionalText(form.notes)
  BY <1>1 DEF ParsedAsset
<1>3. /\ p.name # Blank /\ p.categoryId # Blank /\ p.status # Absent
      /\ DOMAIN r = Columns(kind) /\ r.kind = kind
      /\ \A g \in Fields(kind) : r[g] = p[g]
  <2>1. CASE row = NoRecord
    <3>1. r \in CreatedAsset(form)
      BY <2>1 DEF Written
    <3> DEFINE q == [kind |-> "asset", inKit |-> FALSE, maintained |-> FALSE,
                     retiredCategory |-> FALSE]
    <3>2. /\ r = WrittenOver(q, p)
          /\ p.name # Blank /\ p.categoryId # Blank
          /\ p.status \in {"AVAILABLE", "DAMAGED", "MISSING"}
      BY <3>1 DEF CreatedAsset, Unless
    <3>3. DOMAIN q = {"kind", "inKit", "maintained", "retiredCategory"} /\ q.kind = kind
      OBVIOUS
    <3> HIDE DEF p, q
    <3> QED
      BY <1>1, <1>2, <3>2, <3>3 DEF WrittenOver, Absent
  <2>2. CASE row # NoRecord
    <3>1. r \in UpdatedAsset(row, form)
      BY <2>2 DEF Written
    <3> DEFINE s == WrittenOver(row, p)
    <3>2. /\ r = [s EXCEPT !.retiredCategory = @ /\ p.categoryId = row.categoryId]
          /\ p.name # Blank /\ p.categoryId # Blank /\ p.status # Absent
      BY <3>1 DEF UpdatedAsset, Unless
    <3>3. DOMAIN row = Columns(kind) /\ row.kind = kind
      BY <2>2 DEF GoodRow
    <3>4. /\ DOMAIN s = Columns(kind) /\ s.kind = kind
          /\ \A g \in Fields(kind) : s[g] = p[g]
      <4> HIDE DEF p
      <4> QED
        BY <1>1, <1>2, <3>3 DEF WrittenOver
    <3> HIDE DEF p, s
    <3> QED
      BY <1>1, <3>2, <3>4
  <2> QED
    BY <2>1, <2>2
<1>4. form.name \notin {Absent, Null} /\ form.categoryId \notin {Absent, Null}
  BY <1>1 DEF Editing, Enters, Texts
<1>5. \A g \in Fields(kind) : p[g] = Column(g, form[g])
  BY <1>1, <1>2, <1>3, <1>4, TextStands DEF Column, Texts, Times
<1> QED
  BY <1>1, <1>2, <1>3, <1>4, <1>5 DEF Plainly

LEMMA AccessoryIsWritten ==
    ASSUME kind \in Kinds, kind = "accessory", zone \in Zones, Editing, NEW r \in Written
    PROVE  Plainly(r)
<1> DEFINE p == ParsedAccessory(form)
           q == [kind |-> "accessory"]
<1>1. /\ Fields(kind) = {"accessoryTypeId", "label", "quantity", "isRequired"}
      /\ Columns(kind) = Fields(kind) \cup {"kind"}
      /\ NeverNull(kind) = {"accessoryTypeId"}
  BY DEF Fields, Columns, NeverNull
<1>2. /\ r = WrittenOver(q, p)
      /\ p.accessoryTypeId # Blank /\ p.quantity \in Quantities
  BY DEF Written, SavedAccessory, Unless
<1>3. /\ DOMAIN p = Fields(kind)
      /\ p.accessoryTypeId = form.accessoryTypeId /\ p.label = OptionalText(form.label)
      /\ p.quantity = form.quantity /\ p.isRequired = Ticked(form.isRequired)
      /\ DOMAIN q = {"kind"} /\ q.kind = kind
  BY <1>1 DEF ParsedAccessory
<1>4. form.accessoryTypeId \notin {Absent, Null} /\ form.isRequired \in {"on", Absent}
  BY <1>1 DEF Editing, Enters, Texts
<1>5. \A g \in Fields(kind) : p[g] = Column(g, form[g])
  <2>1. p.isRequired = Column("isRequired", form.isRequired)
    <3>1. form.isRequired = "on" <=> form.isRequired \in {"on", "true"}
      BY <1>4 DEF Absent
    <3>2. Column("isRequired", form.isRequired) = (form.isRequired \in {"on", "true"})
      BY DEF Column, Texts, Times
    <3> QED
      BY <1>3, <3>1, <3>2 DEF Ticked
  <2>2. /\ p.accessoryTypeId = Column("accessoryTypeId", form.accessoryTypeId)
        /\ p.label = Column("label", form.label)
        /\ p.quantity = Column("quantity", form.quantity)
    BY <1>2, <1>3, <1>4, TextStands DEF Column, Texts, Times
  <2> QED
    BY <1>1, <2>1, <2>2
<1>6. DOMAIN r = Columns(kind) /\ r.kind = kind /\ \A g \in Fields(kind) : r[g] = p[g]
  <2> HIDE DEF p, q
  <2> QED
    BY <1>1, <1>2, <1>3 DEF WrittenOver
<1> QED
  BY <1>1, <1>2, <1>3, <1>4, <1>5, <1>6 DEF Plainly

LEMMA MemberIsWritten ==
    ASSUME kind \in Kinds, kind = "member", zone \in Zones, Editing, NEW r \in Written
    PROVE  Plainly(r)
<1> DEFINE p == ParsedMember(form)
           q == [kind |-> "member"]
<1>1. /\ Fields(kind) = {"slotLabel", "isRequired"}
      /\ Columns(kind) = Fields(kind) \cup {"kind"}
      /\ NeverNull(kind) = {}
  BY DEF Fields, Columns, NeverNull
<1>2. r = WrittenOver(q, p)
  BY DEF Written, SavedMember
<1>3. /\ DOMAIN p = Fields(kind)
      /\ p.slotLabel = OptionalText(form.slotLabel)
      /\ p.isRequired = (form.isRequired # "false")
      /\ DOMAIN q = {"kind"} /\ q.kind = kind
  BY <1>1 DEF ParsedMember
<1>4. form.isRequired \in {"true", "false"}
  BY <1>1 DEF Editing, Enters
<1>5. \A g \in Fields(kind) : p[g] = Column(g, form[g])
  <2>1. p.isRequired = Column("isRequired", form.isRequired)
    <3>1. form.isRequired # "false" <=> form.isRequired \in {"on", "true"}
      BY <1>4
    <3>2. Column("isRequired", form.isRequired) = (form.isRequired \in {"on", "true"})
      BY DEF Column, Texts, Times
    <3> QED
      BY <1>3, <3>1, <3>2
  <2>2. p.slotLabel = Column("slotLabel", form.slotLabel)
    BY <1>3 DEF Column, Texts, Times
  <2> QED
    BY <1>1, <2>1, <2>2
<1>6. DOMAIN r = Columns(kind) /\ r.kind = kind /\ \A g \in Fields(kind) : r[g] = p[g]
  <2> HIDE DEF p, q
  <2> QED
    BY <1>1, <1>2, <1>3 DEF WrittenOver
<1> QED
  BY <1>1, <1>5, <1>6 DEF Plainly

LEMMA EditorIsWritten ==
    ASSUME kind \in Kinds, kind = "editor", zone \in Zones, Editing, row = NoRecord \/ GoodRow(row),
           NEW r \in Written
    PROVE  Plainly(r)
<1> DEFINE p == ParsedEditor(form)
<1>1. /\ Fields(kind) = {"fullName", "staffId", "type", "department", "company"}
      /\ Columns(kind) = Fields(kind) \cup {"kind", "linked"}
      /\ NeverNull(kind) = {"fullName"}
  BY DEF Fields, Columns, NeverNull
<1>2. PICK q : /\ r = WrittenOver(q, p) /\ q.kind = "editor"
               /\ DOMAIN q \in {Columns(kind), {"kind", "linked"}}
               /\ p.fullName # Blank
  <2>1. CASE row = NoRecord
    <3>1. r \in CreatedEditor(form)
      BY <2>1 DEF Written
    <3>2. PICK l : r = WrittenOver([kind |-> "editor", linked |-> l], p) /\ p.fullName # Blank
      BY <3>1 DEF CreatedEditor, Unless
    <3> QED
      BY <3>2
  <2>2. CASE row # NoRecord
    <3>1. r \in UpdatedEditor(row, form)
      BY <2>2 DEF Written
    <3>2. r = WrittenOver(row, p) /\ p.fullName # Blank
      BY <3>1 DEF UpdatedEditor, Unless
    <3> QED
      BY <2>2, <3>2 DEF GoodRow
  <2> QED
    BY <2>1, <2>2
<1>3. /\ DOMAIN p = Fields(kind)
      /\ p.fullName = form.fullName /\ p.staffId = OptionalText(form.staffId)
      /\ p.type = form.type /\ p.department = OptionalText(form.department)
      /\ p.company = OptionalText(form.company)
  BY <1>1 DEF ParsedEditor
<1>4. form.fullName \notin {Absent, Null}
  BY <1>1 DEF Editing, Enters, Texts
<1>5. \A g \in Fields(kind) : p[g] = Column(g, form[g])
  BY <1>1, <1>2, <1>3, <1>4, TextStands DEF Column, Texts, Times
<1>6. DOMAIN r = Columns(kind) /\ r.kind = kind /\ \A g \in Fields(kind) : r[g] = p[g]
  <2> HIDE DEF p
  <2> QED
    BY <1>1, <1>2, <1>3 DEF WrittenOver
<1> QED
  BY <1>1, <1>2, <1>3, <1>4, <1>5, <1>6 DEF Plainly

LEMMA SoftwareIsWritten ==
    ASSUME kind \in Kinds, kind = "software", zone \in Zones, Editing, NEW r \in Written
    PROVE  Plainly(r)
<1>1. /\ Fields(kind) = {"name", "version", "sortOrder"}
      /\ Columns(kind) = Fields(kind) \cup {"kind"}
      /\ NeverNull(kind) = {"name"}
  BY DEF Fields, Columns, NeverNull
<1>2. /\ r = [kind |-> "software", name |-> form.name,
              version |-> OptionalText(form.version), sortOrder |-> Sorted(form.sortOrder)]
      /\ form.name # Blank
  BY DEF Written, SavedSoftware, Unless
<1>3. form.name \notin {Absent, Null}
  BY <1>1 DEF Editing, Enters, Texts
<1>4. /\ r.name = Column("name", form.name) /\ r.version = Column("version", form.version)
      /\ r.sortOrder = Column("sortOrder", form.sortOrder)
  BY <1>2, <1>3, TextStands DEF Column, Texts, Times, Sorted
<1>5. DOMAIN r = Columns(kind) /\ r.kind = kind /\ r.name # Null
  BY <1>1, <1>2, <1>3
<1> QED
  BY <1>1, <1>4, <1>5 DEF Plainly

LEMMA ItemIsWritten ==
    ASSUME kind \in Kinds, kind = "item", zone \in Zones, Editing, NEW r \in Written
    PROVE  Plainly(r)
<1>1. /\ Fields(kind) = {"label", "description", "phase", "isRequired", "sortOrder"}
      /\ Columns(kind) = Fields(kind) \cup {"kind"}
      /\ NeverNull(kind) = {"label"}
  BY DEF Fields, Columns, NeverNull
<1>2. /\ r = [kind |-> "item", label |-> form.label, phase |-> form.phase,
              description |-> OptionalText(form.description),
              isRequired |-> Ticked(form.isRequired), sortOrder |-> Sorted(form.sortOrder)]
      /\ form.label # Blank
  BY DEF Written, SavedItem, Unless
<1>3. form.label \notin {Absent, Null} /\ form.isRequired \in {"on", Absent}
  BY <1>1 DEF Editing, Enters, Texts
<1>4. r.isRequired = Column("isRequired", form.isRequired)
  <2>1. form.isRequired = "on" <=> form.isRequired \in {"on", "true"}
    BY <1>3 DEF Absent
  <2>2. Column("isRequired", form.isRequired) = (form.isRequired \in {"on", "true"})
    BY DEF Column, Texts, Times
  <2> QED
    BY <1>2, <2>1, <2>2 DEF Ticked
<1>5. /\ r.label = Column("label", form.label) /\ r.phase = Column("phase", form.phase)
      /\ r.description = Column("description", form.description)
      /\ r.sortOrder = Column("sortOrder", form.sortOrder)
  BY <1>2, <1>3, TextStands DEF Column, Texts, Times, Sorted
<1>6. DOMAIN r = Columns(kind) /\ r.kind = kind /\ r.label # Null
  BY <1>1, <1>2, <1>3
<1> QED
  BY <1>1, <1>4, <1>5, <1>6 DEF Plainly

\* A category that is edited keeps its code when the field is empty.
LEMMA CategoryIsWritten ==
    ASSUME kind \in Kinds, kind = "category", zone \in Zones, Editing, row = NoRecord \/ GoodRow(row),
           NEW r \in Written
    PROVE  Wrote(r)
<1>1. /\ Fields(kind) = {"name", "code", "sortOrder"}
      /\ Columns(kind) = Fields(kind) \cup {"kind"}
      /\ NeverNull(kind) = {"name", "code"}
  BY DEF Fields, Columns, NeverNull
<1>2. /\ r = [kind |-> "category", name |-> form.name, sortOrder |-> form.sortOrder,
              code |-> IF form.code # Blank THEN form.code
                      ELSE IF row = NoRecord THEN form.name ELSE row.code]
      /\ form.name # Blank /\ form.sortOrder \in SortOrders
  BY DEF Written, SavedCategory, Unless
<1>3. form.name \notin {Absent, Null} /\ form.code \notin {Absent, Null}
  BY <1>1 DEF Editing, Enters, Texts
<1>4. r.name = Column("name", form.name) /\ r.sortOrder = Column("sortOrder", form.sortOrder)
  BY <1>2, <1>3, TextStands DEF Column, Texts, Times
<1>5. row # NoRecord => row.code \notin {Blank, Absent, Null}
  BY <1>1 DEF GoodRow, Holds, Texts
<1>6. r.code \notin {Blank, Absent, Null} /\ r.name \notin {Blank, Absent, Null}
  BY <1>2, <1>3, <1>5
<1>7. GoodRow(r)
  <2>1. /\ Holds("name", r.name) /\ Holds("code", r.code)
        /\ Holds("sortOrder", r.sortOrder)
    BY <1>2, <1>6 DEF Holds, Texts, Times, Picks
  <2> QED
    BY <1>1, <1>2, <1>6, <2>1 DEF GoodRow
<1>8. /\ Reads(r) = r
      /\ row # NoRecord => Reads(row) = row
  BY <1>2 DEF Reads, GoodRow
<1>9. r.code = Column("code", form.code) \/ Stays("code", r)
  <2>1. CASE form.code = Blank
    BY <1>2, <1>8, <2>1 DEF Stays, Kept
  <2>2. CASE form.code # Blank
    BY <1>2, <1>3, <2>2, TextStands DEF Column, Texts, Times
  <2> QED
    BY <2>1, <2>2
<1> QED
  BY <1>1, <1>4, <1>7, <1>8, <1>9 DEF Wrote

-----------------------------------------------------------------------------
(* Bookings *)

\* The columns of a booking, read off its form.
LEMMA BookingIsParsed ==
    ASSUME kind = "booking", kind \in Kinds, zone \in Zones, Editing
    PROVE  LET p == ParsedBooking(form)
           IN  /\ DOMAIN p = BookingFields
               /\ ScheduleOf(p) = ParseSchedule(form)
               /\ \A g \in BookingFields : Holds(g, p[g])
               /\ \A g \in BookingFields :
                    p[g] = Column(g, form[g]) \/ (g = "expectedReturnDate" /\ form[g] = NoCollection)
<1> DEFINE p == ParsedBooking(form)
<1>1. /\ Fields(kind) = BookingFields
      /\ BookingFields = {"kitId", "requesterName", "requesterStaffId", "projectName", "notes",
                          "bookingStart", "bookingEnd", "collectionDate", "expectedReturnDate"}
  BY DEF Fields, BookingFields, Times
<1>2. /\ DOMAIN p = BookingFields
      /\ p.kitId = form.kitId
      /\ p.requesterName = OptionalText(form.requesterName)
      /\ p.requesterStaffId = OptionalText(form.requesterStaffId)
      /\ p.projectName = OptionalText(form.projectName)
      /\ p.notes = OptionalText(form.notes)
  BY <1>1 DEF ParsedBooking
<1>3. /\ p.bookingStart = IF form.bookingStart = NoCollection THEN NoCollection
                          ELSE ZonedLocalToDate(zone, form.bookingStart)
      /\ p.bookingEnd = IF form.bookingEnd = NoCollection THEN NoCollection
                        ELSE ZonedLocalToDate(zone, form.bookingEnd)
      /\ p.collectionDate = IF form.collectionDate = NoCollection THEN NoCollection
                            ELSE ZonedLocalToDate(zone, form.collectionDate)
      /\ p.expectedReturnDate =
           IF form.expectedReturnDate = NoCollection THEN p.bookingEnd
           ELSE ZonedLocalToDate(zone, form.expectedReturnDate)
  BY DEF ParsedBooking, ParseSchedule
<1>4. ScheduleOf(p) = ParseSchedule(form)
  BY DEF ScheduleOf, ParsedBooking, ParseSchedule
<1> HIDE DEF p
<1>5. \A g \in BookingFields :
        p[g] = Column(g, form[g]) \/ (g = "expectedReturnDate" /\ form[g] = NoCollection)
  <2>1. \A g \in BookingFields \cap Texts : p[g] = Column(g, form[g])
    BY <1>1, <1>2 DEF Column, Texts, Times
  <2>2. \A g \in Times \ {"expectedReturnDate"} : p[g] = Column(g, form[g])
    BY <1>3 DEF Column, Texts, Times
  <2>3. p.kitId = Column("kitId", form.kitId)
    BY <1>2 DEF Column, Texts, Times
  <2>4. form.expectedReturnDate # NoCollection =>
          p.expectedReturnDate = Column("expectedReturnDate", form.expectedReturnDate)
    BY <1>3 DEF Column, Texts, Times
  <2>5. BookingFields \subseteq Texts \cup Times \cup {"kitId"}
    BY DEF BookingFields, Texts
  <2> QED
    BY <2>1, <2>2, <2>3, <2>4, <2>5
<1>6. \A g \in BookingFields : Enters(g, form[g])
  BY <1>1 DEF Editing
<1>7. \A g \in BookingFields : g # "expectedReturnDate" => Holds(g, p[g])
  <2> SUFFICES ASSUME NEW g \in BookingFields, g # "expectedReturnDate" PROVE Holds(g, p[g])
    OBVIOUS
  <2>1. p[g] = Column(g, form[g])
    BY <1>5
  <2>2. /\ g \in Texts \cup Times \cup Picks
        /\ g \notin {"status", "quantity"}
    BY <1>1 DEF Texts, Times, Picks
  <2> QED
    BY <1>6, <2>1, <2>2, ColumnHolds
<1>8. Holds("expectedReturnDate", p.expectedReturnDate)
  <2>1. CASE form.expectedReturnDate = NoCollection
    <3>1. Holds("bookingEnd", p.bookingEnd)
      BY <1>1, <1>7
    <3>2. p.bookingEnd \in Moments
      BY <3>1 DEF Holds, Times
    <3>3. p.expectedReturnDate \in Moments
      BY <1>3, <2>1, <3>2
    <3> QED
      BY <3>3 DEF Holds, Texts, Times, Picks
  <2>2. CASE form.expectedReturnDate # NoCollection
    <3>1. p.expectedReturnDate = Column("expectedReturnDate", form.expectedReturnDate)
      BY <1>1, <1>5, <2>2
    <3>2. Enters("expectedReturnDate", form.expectedReturnDate)
      BY <1>1, <1>6
    <3>3. "expectedReturnDate" \in Times
      BY DEF Times
    <3> QED
      BY <2>2, <3>1, <3>2, <3>3, ColumnHolds
  <2> QED
    BY <2>1, <2>2
<1> QED
  BY <1>2, <1>4, <1>5, <1>7, <1>8 DEF p

\* A date of return is never left out of a record's form.
LEMMA ReturnIsShown ==
    ASSUME kind = "booking", zone \in Zones, Editing,
           "expectedReturnDate" \in typed \/ row # NoRecord
    PROVE  form.expectedReturnDate # NoCollection
<1>1. "expectedReturnDate" \in Fields(kind) \cap Times
  BY DEF Fields, BookingFields, Times
<1>2. CASE "expectedReturnDate" \in typed
  <2>1. form.expectedReturnDate \in Readings
    BY <1>1, <1>2 DEF Editing
  <2> QED
    BY <2>1, WallsLead DEF Walls
<1>3. CASE "expectedReturnDate" \notin typed
  <2>1. ShowsTheRecord
    BY <1>3 DEF Editing
  <2>2. opened.expectedReturnDate \in Moments
    BY <1>1, <2>1 DEF ShowsTheRecord, GoodRow, Holds
  <2>3. form.expectedReturnDate = WallClock(zone, opened.expectedReturnDate)
    BY <1>1, <1>3, <2>1, <2>2, MomentsReturn DEF ShowsTheRecord, Shows
  <2> QED
    BY <2>2, <2>3, MomentsReturn
<1> QED
  BY <1>2, <1>3

LEMMA BookingIsCreated ==
    ASSUME kind = "booking", kind \in Kinds, zone \in Zones, Editing, row = NoRecord,
           NEW r \in Written
    PROVE  Wrote(r)
<1> DEFINE p == ParsedBooking(form)
<1>1. r \in CreatedBooking(form)
  BY DEF Written
<1>2. PICK q : /\ r = WrittenOver(q, p)
               /\ DOMAIN q = {"kind", "editorId", "status", "free"}
               /\ q.kind = "booking" /\ q.editorId = Null /\ q.status \in {"DRAFT", "RESERVED"}
               /\ p.requesterName # Null /\ p.projectName # Null
               /\ ScheduleErrors(ParseSchedule(form)) = {}
  <2>1. PICK c \in ({"DRAFT"} \X BOOLEAN) \cup {<<"RESERVED", TRUE>>} :
          r = WrittenOver([kind |-> "booking", editorId |-> Null, status |-> c[1],
                           free |-> c[2]], p)
    BY <1>1 DEF CreatedBooking, Unless
  <2>2. /\ p.requesterName # Null /\ p.projectName # Null
        /\ ScheduleErrors(ParseSchedule(form)) = {}
    BY <1>1 DEF CreatedBooking, Unless
  <2>3. c[1] \in {"DRAFT", "RESERVED"}
    <3>1. CASE c = <<"RESERVED", TRUE>>
      BY <3>1
    <3>2. CASE c \in {"DRAFT"} \X BOOLEAN
      BY <3>2
    <3> QED
      BY <3>1, <3>2
  <2> DEFINE q == [kind |-> "booking", editorId |-> Null, status |-> c[1], free |-> c[2]]
  <2> WITNESS q
  <2> QED
    BY <2>1, <2>2, <2>3
<1>3. /\ Fields(kind) = BookingFields
      /\ Columns(kind) = BookingFields \cup {"kind", "editorId", "status", "free"}
      /\ {"kind", "editorId", "status", "free"} \cap BookingFields = {}
      /\ {"requesterName", "projectName"} \cup Times \subseteq BookingFields
      /\ NeverNull(kind) = {}
  BY DEF Fields, Columns, NeverNull, BookingFields, Times
<1>4. /\ DOMAIN p = BookingFields
      /\ ScheduleOf(p) = ParseSchedule(form)
      /\ \A g \in BookingFields : Holds(g, p[g])
      /\ \A g \in BookingFields :
           p[g] = Column(g, form[g]) \/ (g = "expectedReturnDate" /\ form[g] = NoCollection)
  BY BookingIsParsed
<1> HIDE DEF p
<1>5. /\ DOMAIN r = Columns(kind)
      /\ r.kind = kind /\ r.editorId = Null /\ r.status \in {"DRAFT", "RESERVED"}
      /\ \A g \in BookingFields : r[g] = p[g]
  BY <1>2, <1>3, <1>4 DEF WrittenOver
<1>6. ScheduleErrors(ScheduleOf(r)) = {}
  <2>1. ScheduleOf(r) = ScheduleOf(p)
    BY <1>3, <1>5 DEF ScheduleOf, Times
  <2> QED
    BY <1>2, <1>4, <2>1
<1>7. GoodRow(r)
  BY <1>2, <1>3, <1>4, <1>5, <1>6 DEF GoodRow, Blank, Absent, Null
<1>8. \A g \in BookingFields : Reads(r)[g] = r[g]
  BY <1>3, <1>5 DEF Reads, RequesterOf
<1> QED
  BY <1>3, <1>4, <1>5, <1>7, <1>8, ReturnIsShown DEF Wrote

LEMMA BookingIsUpdated ==
    ASSUME kind = "booking", kind \in Kinds, zone \in Zones, Editing, GoodRow(row),
           row # NoRecord, NEW r \in Written
    PROVE  Wrote(r)
<1> DEFINE p == ParsedBooking(form)
<1>1. r \in UpdatedBooking(row, form)
  BY DEF Written
<1>2. /\ r = NextBooking(row, p)
      /\ RequesterRequired(row, p)
      /\ ScheduleErrors(ParseSchedule(form)) = {}
  BY <1>1 DEF UpdatedBooking, Unless
<1>3. /\ Fields(kind) = BookingFields
      /\ BookingFields = {"kitId", "requesterName", "requesterStaffId", "projectName", "notes",
                          "bookingStart", "bookingEnd", "collectionDate", "expectedReturnDate"}
      /\ Columns(kind) = BookingFields \cup {"kind", "editorId", "status", "free"}
      /\ NeverNull(kind) = {}
  BY DEF Fields, Columns, NeverNull, BookingFields, Times
<1>4. /\ DOMAIN p = BookingFields
      /\ ScheduleOf(p) = ParseSchedule(form)
      /\ \A g \in BookingFields : Holds(g, p[g])
      /\ \A g \in BookingFields :
           p[g] = Column(g, form[g]) \/ (g = "expectedReturnDate" /\ form[g] = NoCollection)
  BY BookingIsParsed
<1> HIDE DEF p
<1>5. /\ DOMAIN row = Columns(kind) /\ row.kind = kind
      /\ \A g \in BookingFields : Holds(g, row[g])
      /\ row.status \notin {Blank, Absent, Null}
  BY <1>3 DEF GoodRow
<1>6. /\ DOMAIN r = Columns(kind)
      /\ r.kind = kind /\ r.editorId = row.editorId /\ r.status = row.status
      /\ r.requesterName = IF p.requesterName = Null THEN row.requesterName ELSE p.requesterName
      /\ r.projectName = IF p.projectName = Null THEN row.projectName ELSE p.projectName
      /\ \A g \in BookingFields \ {"requesterName", "projectName"} : r[g] = p[g]
  BY <1>2, <1>3, <1>5 DEF NextBooking
<1>7. ScheduleErrors(ScheduleOf(r)) = {}
  <2>1. ScheduleOf(r) = ScheduleOf(p)
    BY <1>3, <1>6 DEF ScheduleOf
  <2> QED
    BY <1>2, <1>4, <2>1
<1>8. GoodRow(r)
  <2>1. \A g \in BookingFields : Holds(g, r[g])
    BY <1>3, <1>4, <1>5, <1>6
  <2>2. r.editorId = Null => r.requesterName # Null /\ r.projectName # Null
    BY <1>2, <1>6 DEF RequesterRequired
  <2> QED
    BY <1>3, <1>5, <1>6, <1>7, <2>1, <2>2 DEF GoodRow
<1>9. /\ \A g \in BookingFields \ {"requesterName"} : Reads(r)[g] = r[g] /\ Reads(row)[g] = row[g]
      /\ r.requesterName = row.requesterName => Reads(r).requesterName = Reads(row).requesterName
      /\ r.requesterName # Null => Reads(r).requesterName = r.requesterName
  BY <1>3, <1>5, <1>6 DEF Reads, RequesterOf
<1>10. \A g \in {"requesterName", "projectName"} : p[g] = Null => form[g] = Blank
  <2>1. \A g \in {"requesterName", "projectName"} :
          p[g] = OptionalText(form[g]) /\ form[g] \notin {Null, Absent}
    BY <1>3, <1>4 DEF Editing, Enters, Column, Texts, Times
  <2> QED
    BY <2>1 DEF OptionalText
<1>11. \A g \in {"requesterName", "projectName"} :
         Reads(r)[g] = Column(g, form[g]) \/ Stays(g, r)
  <2> SUFFICES ASSUME NEW g \in {"requesterName", "projectName"}
               PROVE  Reads(r)[g] = Column(g, form[g]) \/ Stays(g, r)
    OBVIOUS
  <2>1. p[g] = Column(g, form[g])
    BY <1>3, <1>4
  <2>2. CASE p[g] = Null
    <3>1. r[g] = row[g]
      BY <1>6, <2>2
    <3>2. Reads(r)[g] = Reads(row)[g]
      BY <1>3, <1>9, <3>1
    <3> QED
      BY <1>10, <2>2, <3>2 DEF Stays, Kept
  <2>3. CASE p[g] # Null
    <3>1. r[g] = p[g]
      BY <1>6, <2>3
    <3> QED
      BY <1>3, <1>9, <2>1, <2>3, <3>1
  <2> QED
    BY <2>2, <2>3
<1>12. \A g \in BookingFields \ {"requesterName", "projectName"} : Reads(r)[g] = Column(g, form[g])
  BY <1>4, <1>6, <1>9, ReturnIsShown
<1> QED
  BY <1>3, <1>8, <1>11, <1>12 DEF Wrote

-----------------------------------------------------------------------------
(* Saving *)

LEMMA WrittenIsRight ==
    ASSUME kind \in Kinds, zone \in Zones, Editing, row = NoRecord \/ GoodRow(row),
           NEW r \in Written
    PROVE  Wrote(r)
<1>1. CASE kind = "booking"
  <2>1. CASE row = NoRecord
    BY <1>1, <2>1, BookingIsCreated
  <2>2. CASE row # NoRecord
    BY <1>1, <2>2, BookingIsUpdated
  <2> QED
    BY <2>1, <2>2
<1>2. CASE kind = "category"
  BY <1>2, CategoryIsWritten
<1>3. CASE kind \in {"kit", "asset", "accessory", "member", "editor", "software", "item"}
  <2>1. Plainly(r)
    BY <1>3, KitIsWritten, AssetIsWritten, AccessoryIsWritten, MemberIsWritten,
       EditorIsWritten, SoftwareIsWritten, ItemIsWritten
  <2> QED
    BY <1>3, <2>1, PlainlyWritten
<1> QED
  BY <1>1, <1>2, <1>3, FormsAssumption DEF RecordKinds

\* A field nobody touched is read back as it was when the page was opened.
LEMMA UntouchedReadsBack ==
    ASSUME kind \in Kinds, zone \in Zones, Editing, opened # NoRecord,
           NEW g \in Fields(kind) \ typed, g = "status" => form.status # Absent
    PROVE  Column(g, form[g]) = opened[g]
<1>1. /\ ShowsTheRecord
      /\ Shows(g, form[g], opened[g]) /\ Holds(g, opened[g])
  BY DEF Editing, ShowsTheRecord, GoodRow
<1>2. CASE g \in {"department", "company"}
  <2>1. kind = "editor"
    BY <1>2, FormsAssumption DEF Fields, BookingFields, Times, RecordKinds
  <2>2. Column(g, form[g]) = OptionalText(form[g])
    BY <1>2 DEF Column, Texts, Times
  <2>3. opened[g] \notin {Blank, Absent}
    BY <1>1, <1>2 DEF Holds, Texts
  <2>4. /\ opened.type \in {"INTERNAL", "EXTERNAL"}
        /\ opened.type = "EXTERNAL" => opened.department = Null
        /\ opened.type = "INTERNAL" => opened.company = Null
    BY <1>1, <2>1 DEF ShowsTheRecord, GoodRow, Holds, Fields
  <2>5. form[g] \in {Shown(opened[g]), Absent} /\ (form[g] = Absent => opened[g] = Null)
    BY <1>1, <1>2, <2>1, <2>3, <2>4 DEF ShowsTheRecord, Shown, Blank, Null, Absent
  <2> QED
    BY <2>2, <2>3, <2>5 DEF OptionalText, Shown, Blank, Absent, Null
<1>3. CASE g = "status"
  <2>1. form[g] = opened[g]
    BY <1>1, <1>3 DEF Shows
  <2>2. Column(g, form[g]) = form[g]
    BY <1>3 DEF Column, Texts, Times
  <2> QED
    BY <2>1, <2>2
<1>4. CASE g \notin {"department", "company", "status"}
  <2>1. g \in Texts \cup Times \cup Picks \cup {"isRequired", "sortOrder", "quantity"}
    BY <1>4, FieldsAreKnown
  <2> QED
    BY <1>1, <1>4, <2>1, ReadBack
<1> QED
  BY <1>2, <1>3, <1>4

\* What is saved is what was typed, and else what there was.
LEMMA SavedFaithfully ==
    ASSUME kind \in Kinds, zone \in Zones, Editing, row = NoRecord \/ GoodRow(row),
           NEW r \in Written, NEW g \in Fields(kind)
    PROVE  IF g \in typed THEN Says(g, form[g], Reads(r))
           ELSE row # NoRecord /\ Reads(row)[g] = opened[g] => Reads(r)[g] = Reads(row)[g]
<1>1. g \in typed \/ row # NoRecord =>
        \/ Reads(r)[g] = Column(g, form[g]) /\ (g = "status" => form[g] # Absent)
        \/ Stays(g, r)
  BY WrittenIsRight DEF Wrote
<1>2. CASE g \in typed /\ Reads(r)[g] = Column(g, form[g]) /\ (g = "status" => form[g] # Absent)
  <2>1. Enters(g, form[g])
    BY DEF Editing
  <2>2. g \in Times => form[g] \in Readings \/ (g = "collectionDate" /\ form[g] = NoCollection)
    BY <1>2 DEF Editing
  <2>3. g \in Texts \cup Times \cup Picks \cup {"status", "isRequired", "sortOrder", "quantity"}
    BY FieldsAreKnown
  <2>4. Says(g, form[g], Reads(r))
    BY <1>2, <2>1, <2>2, <2>3, ColumnSays
  <2> QED
    BY <1>2, <2>4
<1>3. CASE g \in typed /\ Stays(g, r)
  <2>1. g \in {"requesterName", "projectName", "code"} /\ form[g] = Blank /\ Kept(g)
    BY <1>3 DEF Stays, Kept
  <2>2. Says(g, form[g], Reads(r))
    BY <2>1 DEF Says
  <2> QED
    BY <1>3, <2>2
<1>4. CASE g \notin typed /\ row # NoRecord
  <2>1. opened # NoRecord
    BY <1>4 DEF Editing
  <2>2. CASE Stays(g, r)
    BY <1>4, <2>2 DEF Stays
  <2>3. CASE Reads(r)[g] = Column(g, form[g]) /\ (g = "status" => form[g] # Absent)
    BY <1>4, <2>1, <2>3, UntouchedReadsBack
  <2> QED
    BY <1>1, <1>4, <2>2, <2>3
<1> QED
  BY <1>1, <1>2, <1>3, <1>4

-----------------------------------------------------------------------------
(* A form saved as it was opened *)

LEMMA BookingAccepted ==
    ASSUME kind \in Kinds, kind = "booking", zone \in Zones, Editing, GoodRow(row),
           row # NoRecord, typed = {}, Reads(row) = opened, opened # NoRecord
    PROVE  Written # {}
<1> DEFINE p == ParsedBooking(form)
           next == NextBooking(row, p)
           changed == {g \in DOMAIN p : next[g] # row[g]}
<1>1. /\ Fields(kind) = BookingFields
      /\ BookingFields = {"kitId", "requesterName", "requesterStaffId", "projectName", "notes",
                          "bookingStart", "bookingEnd", "collectionDate", "expectedReturnDate"}
      /\ Columns(kind) = BookingFields \cup {"kind", "editorId", "status", "free"}
      /\ Windowed \subseteq Structural
      /\ Structural \subseteq BookingFields \ {"requesterName", "projectName"}
  BY DEF Fields, BookingFields, Columns, Times, Structural, Windowed
<1>2. /\ DOMAIN p = BookingFields
      /\ ScheduleOf(p) = ParseSchedule(form)
      /\ \A g \in BookingFields :
           p[g] = Column(g, form[g]) \/ (g = "expectedReturnDate" /\ form[g] = NoCollection)
  BY BookingIsParsed
<1>3. ShowsTheRecord
  BY DEF Editing
<1>4. \A g \in BookingFields : p[g] = opened[g]
  <2>1. \A g \in BookingFields : Column(g, form[g]) = opened[g]
    BY <1>1, UntouchedReadsBack
  <2> QED
    BY <1>1, <1>2, <2>1, ReturnIsShown
<1>5. /\ DOMAIN row = Columns(kind) /\ row.kind = kind
  BY DEF GoodRow
<1>6. \A g \in Columns(kind) \ {"requesterName"} : opened[g] = row[g]
  BY <1>1, <1>5 DEF Reads, RequesterOf
<1>7. EditScopeFor(row.status) # "none"
  BY <1>1, <1>3, <1>6 DEF ShowsTheRecord
<1>8. RequesterRequired(row, p)
  BY <1>1, <1>3, <1>4, <1>6 DEF RequesterRequired, ShowsTheRecord, GoodRow
<1>9. ScheduleErrors(ParseSchedule(form)) = {}
  <2>1. ScheduleOf(p) = ScheduleOf(opened)
    <3> HIDE DEF p
    <3> QED
      BY <1>1, <1>4 DEF ScheduleOf
  <2> QED
    BY <1>2, <1>3, <2>1 DEF ShowsTheRecord, GoodRow
<1>10. changed \cap Structural = {}
  <2> HIDE DEF p
  <2>1. \A g \in Structural : next[g] = p[g]
    BY <1>1, <1>5 DEF NextBooking, Structural
  <2> QED
    BY <1>1, <1>4, <1>6, <2>1
<1>11. changed \cap Windowed = {}
  BY <1>1, <1>10
<1>12. UpdatedBooking(row, form) = {next}
  BY <1>7, <1>8, <1>9, <1>10, <1>11 DEF UpdatedBooking, Unless
<1> QED
  BY <1>12 DEF Written

LEMMA FormAccepted ==
    ASSUME kind \in Kinds, zone \in Zones, Editing, row = NoRecord \/ GoodRow(row),
           typed = {}, Reads(row) = opened, opened # NoRecord, ~HeldByWorkflow
    PROVE  Written # {}
<1>1. row # NoRecord /\ GoodRow(row) /\ row.kind = kind
  BY DEF Editing, GoodRow
<1>2. CASE kind = "booking"
  BY <1>1, <1>2, BookingAccepted
<1>3. CASE kind # "booking"
  <2>1. opened = row
    BY <1>1, <1>3 DEF Reads
  <2>2. \A g \in Fields(kind) : Shows(g, form[g], row[g]) /\ Holds(g, row[g])
    BY <1>1, <2>1 DEF Editing, ShowsTheRecord, GoodRow
  <2>3. \A g \in NeverNull(kind) : row[g] # Null
    BY <1>1 DEF GoodRow
  <2>4. NeverNull(kind) \subseteq Fields(kind) \cap (Texts \ {"department", "company"})
    BY <1>3, FormsAssumption DEF NeverNull, Fields, Texts, RecordKinds
  <2>5. \A g \in NeverNull(kind) : form[g] = row[g] /\ form[g] # Blank
    BY <2>2, <2>3, <2>4 DEF Shows, Holds, Shown
  <2>6. CASE kind = "kit"
    <3>1. form.kitCode # Blank
      BY <2>5, <2>6 DEF NeverNull
    <3>2. form.status # Absent
      BY <2>6 DEF HeldByWorkflow
    <3>3. form.status = row.status
      BY <2>2, <2>6, <3>2 DEF Fields, Shows
    <3>4. UpdatedKit(row, form) # {}
      BY <3>1, <3>2, <3>3 DEF UpdatedKit, ParsedKit, Unless
    <3> QED
      BY <1>1, <2>6, <3>4 DEF Written
  <2>7. CASE kind = "asset"
    <3>1. form.name # Blank /\ form.categoryId # Blank
      BY <2>5, <2>7 DEF NeverNull
    <3>2. form.status # Absent
      BY <2>7 DEF HeldByWorkflow
    <3>3. form.status = row.status
      BY <2>2, <2>7, <3>2 DEF Fields, Shows
    <3>4. UpdatedAsset(row, form) # {}
      BY <3>1, <3>2, <3>3 DEF UpdatedAsset, ParsedAsset, Unless
    <3> QED
      BY <1>1, <2>7, <3>4 DEF Written
  <2>8. CASE kind = "accessory"
    <3>1. form.accessoryTypeId # Blank
      BY <2>5, <2>8 DEF NeverNull
    <3>2. form.quantity \in Quantities
      BY <2>2, <2>8 DEF Fields, Shows, Holds, Picks
    <3>3. SavedAccessory(row, form) # {}
      BY <3>1, <3>2 DEF SavedAccessory, ParsedAccessory, Unless
    <3> QED
      BY <2>8, <3>3 DEF Written
  <2>9. CASE kind = "member"
    BY <2>9 DEF Written, SavedMember
  <2>10. CASE kind = "editor"
    <3>1. form.fullName # Blank
      BY <2>5, <2>10 DEF NeverNull
    <3>2. form.type = row.type
      BY <2>2, <2>10 DEF Fields, Shows, Picks
    <3>3. UpdatedEditor(row, form) # {}
      BY <3>1, <3>2 DEF UpdatedEditor, ParsedEditor, Unless
    <3> QED
      BY <1>1, <2>10, <3>3 DEF Written
  <2>11. CASE kind = "category"
    <3>1. form.name # Blank
      BY <2>5, <2>11 DEF NeverNull
    <3>2. form.sortOrder \in SortOrders
      BY <2>2, <2>11 DEF Fields, Shows, Holds, Picks
    <3>3. SavedCategory(row, form) # {}
      BY <3>1, <3>2 DEF SavedCategory, Unless
    <3> QED
      BY <2>11, <3>3 DEF Written
  <2>12. CASE kind = "software"
    <3>1. form.name # Blank
      BY <2>5, <2>12 DEF NeverNull
    <3>2. SavedSoftware(row, form) # {}
      BY <3>1 DEF SavedSoftware, Unless
    <3> QED
      BY <2>12, <3>2 DEF Written
  <2>13. CASE kind = "item"
    <3>1. form.label # Blank
      BY <2>5, <2>13 DEF NeverNull
    <3>2. SavedItem(row, form) # {}
      BY <3>1 DEF SavedItem, Unless
    <3> QED
      BY <2>13, <3>2 DEF Written
  <2> QED
    BY <1>3, <2>6, <2>7, <2>8, <2>9, <2>10, <2>11, <2>12, <2>13, FormsAssumption DEF RecordKinds
<1> QED
  BY <1>2, <1>3

-----------------------------------------------------------------------------
(* Opening a form *)

\* A page that shows what a column holds has filled the field properly.
LEMMA ShownIsEntered ==
    ASSUME kind \in Kinds, zone \in Zones, NEW g \in Fields(kind), g \notin {"department", "company", "status"},
           NEW x, Holds(g, x), NEW v, Shows(g, v, x)
    PROVE  Enters(g, v)
<1>1. g \in Texts \cup Times \cup Picks \cup {"isRequired", "sortOrder", "quantity"}
  BY FieldsAreKnown
<1>2. CASE g \in Texts
  <2>1. v = Shown(x) /\ x \notin {Blank, Absent}
    BY <1>2 DEF Shows, Holds
  <2>2. v \notin {Null, Absent}
    BY <2>1 DEF Shown, Blank, Absent, Null
  <2> QED
    BY <1>2, <2>2 DEF Enters, Texts, Times, Picks
<1>3. CASE g \in Times
  <2>1. v \in Walls \/ (g = "collectionDate" /\ v = NoCollection)
    <3>1. v = IF x = NoCollection THEN NoCollection ELSE WallClock(zone, x)
      BY <1>3 DEF Shows
    <3>2. x \in Moments \/ (g = "collectionDate" /\ x = NoCollection)
      BY <1>3 DEF Holds
    <3> QED
      BY <3>1, <3>2, MomentsReturn
  <2> QED
    BY <1>3, <2>1 DEF Enters, Texts, Times, Picks
<1>4. CASE g \in Picks
  <2>1. v = x /\ x \notin {Blank, Absent, Null} /\ (g = "type" => x \in {"INTERNAL", "EXTERNAL"})
    BY <1>4 DEF Shows, Holds
  <2> QED
    BY <1>4, <2>1 DEF Enters, Texts, Times, Picks
<1>5. CASE g = "isRequired"
  <2>1. v \in IF kind = "member" THEN {"true", "false"} ELSE {"on", Absent}
    BY <1>5 DEF Shows, Holds, TickBox
  <2> QED
    BY <1>5, <2>1 DEF Enters, Texts, Times, Picks
<1>6. CASE g \in {"sortOrder", "quantity"}
  BY <1>6 DEF Enters, Texts, Times, Picks
<1> QED
  BY <1>1, <1>2, <1>3, <1>4, <1>5, <1>6

\* The form of a booking shows its columns, and who it is for.
LEMMA BookingIsShown ==
    ASSUME kind = "booking", zone \in Zones, GoodRow(row), profileName \in {"profile", "renamed"}
    PROVE  /\ GoodRow(Reads(row))
           /\ Reads(row).status = row.status
           /\ Reads(row).requesterName = Null => Reads(row).editorId = Null
           /\ DOMAIN BookingForm(row) = Fields(kind)
           /\ \A g \in Fields(kind) : Shows(g, BookingForm(row)[g], Reads(row)[g])
<1> DEFINE o == Reads(row)
           f == BookingForm(row)
<1>1. /\ Fields(kind) = {"kitId", "requesterName", "requesterStaffId", "projectName", "notes",
                         "bookingStart", "bookingEnd", "collectionDate", "expectedReturnDate"}
      /\ Columns(kind) = Fields(kind) \cup {"kind", "editorId", "status", "free"}
      /\ NeverNull(kind) = {}
  BY DEF Fields, Columns, NeverNull, BookingFields, Times
<1>2. /\ DOMAIN row = Columns(kind) /\ row.kind = kind
      /\ \A g \in Fields(kind) : Holds(g, row[g])
      /\ row.status \notin {Blank, Absent, Null}
      /\ ScheduleErrors(ScheduleOf(row)) = {}
      /\ row.editorId = Null => row.requesterName # Null /\ row.projectName # Null
  BY DEF GoodRow
<1>3. /\ DOMAIN o = Columns(kind)
      /\ \A g \in Columns(kind) \ {"requesterName"} : o[g] = row[g]
      /\ o.requesterName = IF row.requesterName = Null /\ row.editorId # Null
                           THEN profileName ELSE row.requesterName
  BY <1>1, <1>2 DEF Reads, RequesterOf
<1>4. RequesterOf(row).requesterName = o.requesterName
  BY <1>2 DEF Reads
<1>5. /\ DOMAIN f = Fields(kind)
      /\ f.kitId = row.kitId /\ f.requesterName = Shown(o.requesterName)
      /\ f.requesterStaffId = Shown(row.requesterStaffId)
      /\ f.projectName = Shown(row.projectName) /\ f.notes = Shown(row.notes)
      /\ f.bookingStart = WallClock(zone, row.bookingStart)
      /\ f.bookingEnd = WallClock(zone, row.bookingEnd)
      /\ f.collectionDate = IF row.collectionDate = NoCollection THEN NoCollection
                            ELSE WallClock(zone, row.collectionDate)
      /\ f.expectedReturnDate = WallClock(zone, row.expectedReturnDate)
  BY <1>1, <1>4 DEF BookingForm, ToZonedLocalInput
<1> HIDE DEF o, f
<1>6. ScheduleErrors(ScheduleOf(o)) = {}
  <2>1. ScheduleOf(o) = ScheduleOf(row)
    BY <1>1, <1>3 DEF ScheduleOf
  <2> QED
    BY <1>2, <2>1
<1>7. \A g \in Fields(kind) : Holds(g, o[g])
  <2>1. Holds("requesterName", o.requesterName)
    <3>1. o.requesterName \notin {Blank, Absent}
      BY <1>1, <1>2, <1>3 DEF Holds, Texts, Blank, Absent
    <3> QED
      BY <3>1 DEF Holds, Texts, Times, Picks
  <2> QED
    BY <1>1, <1>2, <1>3, <2>1
<1>8. o.requesterName = Null => o.editorId = Null
  BY <1>1, <1>3 DEF Null
<1>9. GoodRow(o)
  BY <1>1, <1>2, <1>3, <1>6, <1>7, <1>8 DEF GoodRow, Null
<1>10. \A g \in Fields(kind) : Shows(g, f[g], o[g])
  <2>1. \A g \in {"requesterName", "requesterStaffId", "projectName", "notes"} :
          f[g] = Shown(o[g])
    BY <1>1, <1>3, <1>5
  <2>2. \A g \in Times : f[g] = IF o[g] = NoCollection THEN NoCollection ELSE WallClock(zone, o[g])
    <3>1. \A g \in Times \ {"collectionDate"} : o[g] \in Moments
      BY <1>1, <1>7 DEF Times, Holds
    <3>2. \A g \in Times \ {"collectionDate"} : o[g] # NoCollection
      BY <3>1, MomentsReturn
    <3> QED
      BY <1>1, <1>3, <1>5, <3>2 DEF Times
  <2>3. \A g \in {"requesterName", "requesterStaffId", "projectName", "notes"} : Shows(g, f[g], o[g])
    BY <2>1 DEF Shows, Texts, Times, Picks
  <2>4. \A g \in Times : Shows(g, f[g], o[g])
    BY <2>2 DEF Shows, Texts, Times, Picks
  <2>5. Shows("kitId", f.kitId, o.kitId)
    BY <1>1, <1>3, <1>5 DEF Shows, Texts, Times, Picks
  <2> QED
    BY <1>1, <2>3, <2>4, <2>5 DEF Times
<1> QED
  BY <1>1, <1>3, <1>5, <1>8, <1>9, <1>10 DEF o, f

\* The forms of the other kinds.
LEMMA RecordIsShown ==
    ASSUME kind \in Kinds \ {"booking"}, zone \in Zones, GoodRow(row)
    PROVE  /\ DOMAIN FilledFrom(row) = Fields(kind)
           /\ \A g \in Fields(kind) : Shows(g, FilledFrom(row)[g], row[g])
<1> DEFINE f == FilledFrom(row)
<1>1. row.kind = kind
  BY DEF GoodRow
<1>2. CASE kind = "kit"
  <2>1. f = KitForm(row)
    BY <1>1, <1>2 DEF FilledFrom
  <2>2. row.kitCode # Null
    BY <1>2 DEF GoodRow, NeverNull
  <2>3. Fields(kind) = {"kitCode", "admBarcode", "suitcaseStatus", "status", "notes"}
    BY <1>2 DEF Fields
  <2>4. /\ f.kitCode = Shown(row.kitCode) /\ f.admBarcode = Shown(row.admBarcode)
        /\ f.suitcaseStatus = row.suitcaseStatus /\ f.status \in {Absent, row.status}
        /\ f.notes = Shown(row.notes) /\ DOMAIN f = Fields(kind)
    BY <2>1, <2>2, <2>3 DEF KitForm, StatusSelect, Shown
  <2> HIDE DEF f
  <2>5. \A g \in Fields(kind) : Shows(g, f[g], row[g])
    BY <2>3, <2>4 DEF Shows, Texts, Times, Picks
  <2> QED
    BY <2>4, <2>5 DEF f
<1>3. CASE kind = "asset"
  <2>1. f = AssetForm(row)
    BY <1>1, <1>3 DEF FilledFrom
  <2>2. row.name # Null /\ row.categoryId # Null
    BY <1>3 DEF GoodRow, NeverNull
  <2>3. Fields(kind) = {"name", "categoryId", "serialNumber", "status", "notes"}
    BY <1>3 DEF Fields
  <2>4. /\ f.name = Shown(row.name) /\ f.categoryId = Shown(row.categoryId)
        /\ f.serialNumber = Shown(row.serialNumber) /\ f.status \in {Absent, row.status}
        /\ f.notes = Shown(row.notes) /\ DOMAIN f = Fields(kind)
    BY <2>1, <2>2, <2>3 DEF AssetForm, StatusSelect, Shown
  <2> HIDE DEF f
  <2>5. \A g \in Fields(kind) : Shows(g, f[g], row[g])
    BY <2>3, <2>4 DEF Shows, Texts, Times, Picks
  <2> QED
    BY <2>4, <2>5 DEF f
<1>4. CASE kind = "accessory"
  <2>1. f = AccessoryForm(row)
    BY <1>1, <1>4 DEF FilledFrom
  <2>2. row.accessoryTypeId # Null
    BY <1>4 DEF GoodRow, NeverNull
  <2>3. Fields(kind) = {"accessoryTypeId", "label", "quantity", "isRequired"}
    BY <1>4 DEF Fields
  <2>4. /\ f.accessoryTypeId = Shown(row.accessoryTypeId) /\ f.label = Shown(row.label)
        /\ f.quantity = row.quantity /\ f.isRequired = TickBox(row.isRequired)
        /\ DOMAIN f = Fields(kind)
    BY <2>1, <2>2, <2>3 DEF AccessoryForm, Shown
  <2> HIDE DEF f
  <2>5. \A g \in Fields(kind) : Shows(g, f[g], row[g])
    BY <1>4, <2>3, <2>4 DEF Shows, Texts, Times, Picks
  <2> QED
    BY <2>4, <2>5 DEF f
<1>5. CASE kind = "member"
  <2>1. f = MemberForm(row)
    BY <1>1, <1>5 DEF FilledFrom
  <2>2. Fields(kind) = {"slotLabel", "isRequired"}
    BY <1>5 DEF Fields
  <2>3. /\ f.slotLabel = Shown(row.slotLabel)
        /\ f.isRequired = IF row.isRequired THEN "true" ELSE "false"
        /\ DOMAIN f = Fields(kind)
    BY <2>1, <2>2 DEF MemberForm
  <2> HIDE DEF f
  <2>4. \A g \in Fields(kind) : Shows(g, f[g], row[g])
    BY <1>5, <2>2, <2>3 DEF Shows, Texts, Times, Picks
  <2> QED
    BY <2>3, <2>4 DEF f
<1>6. CASE kind = "editor"
  <2>1. f = EditorForm(row)
    BY <1>1, <1>6 DEF FilledFrom
  <2>2. row.fullName # Null
    BY <1>6 DEF GoodRow, NeverNull
  <2>3. Fields(kind) = {"fullName", "staffId", "type", "department", "company"}
    BY <1>6 DEF Fields
  <2>4. /\ f.fullName = Shown(row.fullName) /\ f.staffId = Shown(row.staffId)
        /\ f.type = row.type /\ DOMAIN f = Fields(kind)
    BY <2>1, <2>2, <2>3 DEF EditorForm, Shown
  <2> HIDE DEF f
  <2>5. \A g \in Fields(kind) : Shows(g, f[g], row[g])
    BY <2>3, <2>4 DEF Shows, Texts, Times, Picks
  <2> QED
    BY <2>4, <2>5 DEF f
<1>7. CASE kind = "category"
  <2>1. f = CategoryForm(row)
    BY <1>1, <1>7 DEF FilledFrom
  <2>2. row.name # Null /\ row.code # Null
    BY <1>7 DEF GoodRow, NeverNull
  <2>3. Fields(kind) = {"name", "code", "sortOrder"}
    BY <1>7 DEF Fields
  <2>4. /\ f.name = Shown(row.name) /\ f.code = Shown(row.code)
        /\ f.sortOrder = row.sortOrder /\ DOMAIN f = Fields(kind)
    BY <2>1, <2>2, <2>3 DEF CategoryForm, Shown
  <2> HIDE DEF f
  <2>5. \A g \in Fields(kind) : Shows(g, f[g], row[g])
    BY <2>3, <2>4 DEF Shows, Texts, Times, Picks
  <2> QED
    BY <2>4, <2>5 DEF f
<1>8. CASE kind = "software"
  <2>1. f = SoftwareForm(row)
    BY <1>1, <1>8 DEF FilledFrom
  <2>2. row.name # Null
    BY <1>8 DEF GoodRow, NeverNull
  <2>3. Fields(kind) = {"name", "version", "sortOrder"}
    BY <1>8 DEF Fields
  <2>4. /\ f.name = Shown(row.name) /\ f.version = Shown(row.version)
        /\ f.sortOrder = row.sortOrder /\ DOMAIN f = Fields(kind)
    BY <2>1, <2>2, <2>3 DEF SoftwareForm, Shown
  <2> HIDE DEF f
  <2>5. \A g \in Fields(kind) : Shows(g, f[g], row[g])
    BY <2>3, <2>4 DEF Shows, Texts, Times, Picks
  <2> QED
    BY <2>4, <2>5 DEF f
<1>9. CASE kind = "item"
  <2>1. f = ItemForm(row)
    BY <1>1, <1>9 DEF FilledFrom
  <2>2. row.label # Null
    BY <1>9 DEF GoodRow, NeverNull
  <2>3. Fields(kind) = {"label", "description", "phase", "isRequired", "sortOrder"}
    BY <1>9 DEF Fields
  <2>4. /\ f.label = Shown(row.label) /\ f.description = Shown(row.description)
        /\ f.phase = row.phase /\ f.isRequired = TickBox(row.isRequired)
        /\ f.sortOrder = row.sortOrder /\ DOMAIN f = Fields(kind)
    BY <2>1, <2>2, <2>3 DEF ItemForm, Shown
  <2> HIDE DEF f
  <2>5. \A g \in Fields(kind) : Shows(g, f[g], row[g])
    BY <1>9, <2>3, <2>4 DEF Shows, Texts, Times, Picks
  <2> QED
    BY <2>4, <2>5 DEF f
<1> QED
  BY <1>2, <1>3, <1>4, <1>5, <1>6, <1>7, <1>8, <1>9, FormsAssumption DEF RecordKinds

-----------------------------------------------------------------------------
(* The steps *)

\* The kind of record and the zone stay, and with them what the terms mean.
LEMMA SameMeaning ==
    ASSUME UNCHANGED <<kind, zone>>
    PROVE  /\ \A r : GoodRow(r)' <=> GoodRow(r)
           /\ \A g, v : Enters(g, v)' <=> Enters(g, v)
           /\ \A g, v, x : Shows(g, v, x)' <=> Shows(g, v, x)
BY DEF GoodRow, Holds, Moments, Enters, Walls, Shows

LEMMA RowHasItsKind ==
    ASSUME kind \in Kinds, row = NoRecord \/ GoodRow(row), row.kind \in RecordKinds
    PROVE  row.kind = kind /\ row # NoRecord /\ GoodRow(row)
BY DEF GoodRow, RecordKinds, NoRecord

LEMMA LegacyBookingKeepsForms ==
    ASSUME FormsInv, LegacyBooking
    PROVE  FormsInv'
<1>1. PICK w, v \in Readings, status \in {"DRAFT", "READY_FOR_HANDOVER"} :
        /\ ZonedLocalToDate(zone, w) < ZonedLocalToDate(zone, v)
        /\ row' = [kind |-> "booking", kitId |-> "kit", editorId |-> "profile",
                   requesterName |-> Null, requesterStaffId |-> Null,
                   projectName |-> Null, notes |-> Null,
                   bookingStart |-> ZonedLocalToDate(zone, w),
                   bookingEnd |-> ZonedLocalToDate(zone, v),
                   collectionDate |-> NoCollection,
                   expectedReturnDate |-> ZonedLocalToDate(zone, v),
                   status |-> status, free |-> TRUE]
  BY DEF LegacyBooking
<1>2. UNCHANGED <<kind, zone, profileName, form, opened, typed, outcome>> /\ kind = "booking"
      /\ outcome = "closed"
  BY DEF LegacyBooking
<1>3. /\ Fields(kind) = {"kitId", "requesterName", "requesterStaffId", "projectName", "notes",
                         "bookingStart", "bookingEnd", "collectionDate", "expectedReturnDate"}
      /\ Columns(kind) = Fields(kind) \cup {"kind", "editorId", "status", "free"}
      /\ NeverNull(kind) = {}
  BY <1>2 DEF Fields, Columns, NeverNull, BookingFields, Times
<1> DEFINE start == ZonedLocalToDate(zone, w)
           end   == ZonedLocalToDate(zone, v)
<1>4. start \in Moments /\ end \in Moments
  BY DEF Moments
<1>5. start \in Int /\ end \in Int /\ start < end
  BY <1>1, <1>4, MomentsReturn DEF FormsInv
<1> DEFINE s == [start |-> start, end |-> end, collection |-> NoCollection, expected |-> end]
<1>6. ScheduleOf(row') = s
  <2> HIDE DEF start, end
  <2> QED
    BY <1>1 DEF ScheduleOf, start, end
<1>7. ScheduleErrors(s) = {}
  <2> HIDE DEF start, end
  <2> QED
    BY <1>5 DEF ScheduleErrors
<1>8. GoodRow(row')
  <2>1. \A g \in {"kitId", "requesterName", "requesterStaffId", "projectName", "notes"} :
          Holds(g, row'[g])
    <3>1. \A g \in {"requesterName", "requesterStaffId", "projectName", "notes"} :
            row'[g] = Null
      BY <1>1
    <3>2. row'.kitId \notin {Blank, Absent, Null}
      BY <1>1 DEF Blank, Absent, Null
    <3> QED
      BY <3>1, <3>2 DEF Holds, Texts, Times, Picks, Blank, Absent, Null
  <2>2. \A g \in {"bookingStart", "bookingEnd", "collectionDate", "expectedReturnDate"} :
          Holds(g, row'[g])
    BY <1>1, <1>4 DEF Holds, Texts, Times, Picks
  <2>3. DOMAIN row' = Columns(kind) /\ row'.kind = kind
    BY <1>1, <1>2, <1>3
  <2>4. row'.status \notin {Blank, Absent, Null} /\ row'.editorId # Null
    BY <1>1 DEF Blank, Absent, Null
  <2> QED
    BY <1>2, <1>3, <1>6, <1>7, <2>1, <2>2, <2>3, <2>4 DEF GoodRow
<1> QED
  BY <1>2, <1>8, SameMeaning DEF FormsInv

\* A value a field may hold.
LEMMA Entered ==
    ASSUME NEW g, NEW v,
           \/ g \in Texts /\ v \notin {Null, Absent}
           \/ g \in {"department", "company"} /\ v # Null
           \/ g \in Times /\ v \in Walls
           \/ g \in {"collectionDate", "expectedReturnDate"} /\ v = NoCollection
           \/ g \in {"kitId", "suitcaseStatus", "phase", "status"} /\ v \notin {Blank, Null, Absent}
           \/ g = "status" /\ v \notin {Blank, Null}
           \/ g = "type" /\ v \in {"INTERNAL", "EXTERNAL"}
           \/ g = "isRequired" /\ v \in IF kind = "member" THEN {"true", "false"} ELSE {"on", Absent}
           \/ g \in {"sortOrder", "quantity"}
    PROVE  Enters(g, v)
<1>1. CASE g \in Texts /\ v \notin {Null, Absent}
  BY <1>1 DEF Enters, Texts, Times, Picks
<1>2. CASE g \in {"department", "company"} /\ v # Null
  BY <1>2 DEF Enters, Texts, Times, Picks
<1>3. CASE \/ g \in Times /\ v \in Walls
           \/ g \in {"collectionDate", "expectedReturnDate"} /\ v = NoCollection
  BY <1>3 DEF Enters, Texts, Times, Picks
<1>4. CASE \/ g \in {"kitId", "suitcaseStatus", "phase", "status"} /\ v \notin {Blank, Null, Absent}
           \/ g = "status" /\ v \notin {Blank, Null}
  BY <1>4 DEF Enters, Texts, Times, Picks
<1>5. CASE g = "type" /\ v \in {"INTERNAL", "EXTERNAL"}
  BY <1>5 DEF Enters, Texts, Times, Picks, Blank, Absent, Null
<1>6. CASE g = "isRequired" /\ v \in IF kind = "member" THEN {"true", "false"} ELSE {"on", Absent}
  BY <1>6 DEF Enters, Texts, Times, Picks
<1>7. CASE g \in {"sortOrder", "quantity"}
  BY <1>7 DEF Enters, Texts, Times, Picks
<1> QED
  BY <1>1, <1>2, <1>3, <1>4, <1>5, <1>6, <1>7

\* An empty form.
LEMMA EmptyFormIsEntered ==
    ASSUME kind \in Kinds
    PROVE  /\ DOMAIN EmptyForm = Fields(kind)
           /\ \A g \in Fields(kind) : Enters(g, EmptyForm[g])
           /\ kind = "editor" => EmptyForm.type = "INTERNAL" /\ EmptyForm.company = Absent
<1> DEFINE f == EmptyForm
<1>1. CASE kind = "booking"
  <2>1. PICK first, last \in Readings : f =
          [kitId |-> "kit", requesterName |-> Blank, requesterStaffId |-> Blank,
           projectName |-> Blank, bookingStart |-> first, bookingEnd |-> last,
           collectionDate |-> NoCollection, expectedReturnDate |-> NoCollection,
           notes |-> Blank]
    <3>1. \E first \in Readings : \A w \in Readings : first =< w
      BY FormsAssumption
    <3>2. \E last \in Readings : \A w \in Readings : w =< last
      BY FormsAssumption
    <3>3. /\ (CHOOSE w \in Readings : \A v \in Readings : w =< v) \in Readings
          /\ (CHOOSE w \in Readings : \A v \in Readings : v =< w) \in Readings
      BY <3>1, <3>2
    <3> QED
      BY <1>1, <3>3 DEF EmptyForm, NewBookingForm
  <2>2. Fields(kind) = {"kitId", "requesterName", "requesterStaffId", "projectName", "notes",
                        "bookingStart", "bookingEnd", "collectionDate", "expectedReturnDate"}
    BY <1>1 DEF Fields, BookingFields, Times
  <2>3. Readings \subseteq Walls
    BY DEF Walls
  <2> HIDE DEF f
  <2>4. DOMAIN f = Fields(kind)
    BY <2>1, <2>2
  <2>5. \A g \in {"requesterName", "requesterStaffId", "projectName", "notes", "kitId"} : Enters(g, f[g])
    <3>1. \A g \in {"requesterName", "requesterStaffId", "projectName", "notes"} : f[g] = Blank
      BY <2>1
    <3>2. f.kitId = "kit"
      BY <2>1
    <3>3. Blank \notin {Null, Absent} /\ "kit" \notin {Blank, Null, Absent}
      BY DEF Blank, Absent, Null
    <3>4. {"requesterName", "requesterStaffId", "projectName", "notes"} \subseteq Texts
      BY DEF Texts
    <3> QED
      BY <3>1, <3>2, <3>3, <3>4, Entered
  <2>6. \A g \in {"bookingStart", "bookingEnd", "collectionDate", "expectedReturnDate"} : Enters(g, f[g])
    BY <2>1, <2>3 DEF Enters, Texts, Times, Picks
  <2> QED
    BY <1>1, <2>2, <2>4, <2>5, <2>6 DEF f
<1>2. CASE kind = "kit"
  <2>1. f = NewKitForm
    BY <1>2 DEF EmptyForm
  <2>2. /\ Fields(kind) = {"kitCode", "admBarcode", "notes"} \cup {"suitcaseStatus", "status"}
        /\ {"kitCode", "admBarcode", "notes"} \subseteq Texts
    BY <1>2 DEF Fields, Texts
  <2>3. /\ DOMAIN f = Fields(kind)
        /\ \A g \in {"kitCode", "admBarcode", "notes"} : f[g] = Blank
        /\ f.suitcaseStatus = "GOOD"
        /\ f.status = "AVAILABLE"
    BY <2>1, <2>2 DEF NewKitForm
  <2> HIDE DEF f
  <2>4. \A g \in {"kitCode", "admBarcode", "notes"} : Enters(g, f[g])
    BY <2>2, <2>3, Entered DEF Blank, Null, Absent
  <2>5. Enters("suitcaseStatus", f.suitcaseStatus)
    BY <1>2, <2>3, Entered DEF Blank, Null, Absent
  <2>6. Enters("status", f.status)
    BY <1>2, <2>3, Entered DEF Blank, Null, Absent
  <2> QED
    BY <1>2, <2>2, <2>3, <2>4, <2>5, <2>6 DEF f
<1>3. CASE kind = "asset"
  <2>1. f = NewAssetForm
    BY <1>3 DEF EmptyForm
  <2>2. /\ Fields(kind) = {"name", "categoryId", "serialNumber", "notes"} \cup {"status"}
        /\ {"name", "categoryId", "serialNumber", "notes"} \subseteq Texts
    BY <1>3 DEF Fields, Texts
  <2>3. /\ DOMAIN f = Fields(kind)
        /\ \A g \in {"name", "categoryId", "serialNumber", "notes"} : f[g] = Blank
        /\ f.status = "AVAILABLE"
    BY <2>1, <2>2 DEF NewAssetForm
  <2> HIDE DEF f
  <2>4. \A g \in {"name", "categoryId", "serialNumber", "notes"} : Enters(g, f[g])
    BY <2>2, <2>3, Entered DEF Blank, Null, Absent
  <2>5. Enters("status", f.status)
    BY <1>3, <2>3, Entered DEF Blank, Null, Absent
  <2> QED
    BY <1>3, <2>2, <2>3, <2>4, <2>5 DEF f
<1>4. CASE kind = "accessory"
  <2>1. f = NewAccessoryForm
    BY <1>4 DEF EmptyForm
  <2>2. /\ Fields(kind) = {"accessoryTypeId", "label"} \cup {"quantity", "isRequired"}
        /\ {"accessoryTypeId", "label"} \subseteq Texts
    BY <1>4 DEF Fields, Texts
  <2>3. /\ DOMAIN f = Fields(kind)
        /\ \A g \in {"accessoryTypeId", "label"} : f[g] = Blank
        /\ f.quantity = 1
        /\ f.isRequired = "on"
    BY <2>1, <2>2 DEF NewAccessoryForm
  <2> HIDE DEF f
  <2>4. \A g \in {"accessoryTypeId", "label"} : Enters(g, f[g])
    BY <2>2, <2>3, Entered DEF Blank, Null, Absent
  <2>5. Enters("quantity", f.quantity)
    BY <1>4, <2>3, Entered DEF Blank, Null, Absent
  <2>6. Enters("isRequired", f.isRequired)
    BY <1>4, <2>3, Entered DEF Blank, Null, Absent
  <2> QED
    BY <1>4, <2>2, <2>3, <2>4, <2>5, <2>6 DEF f
<1>5. CASE kind = "member"
  <2>1. f = NewMemberForm
    BY <1>5 DEF EmptyForm
  <2>2. /\ Fields(kind) = {"slotLabel"} \cup {"isRequired"}
        /\ {"slotLabel"} \subseteq Texts
    BY <1>5 DEF Fields, Texts
  <2>3. /\ DOMAIN f = Fields(kind)
        /\ \A g \in {"slotLabel"} : f[g] = Blank
        /\ f.isRequired = "true"
    BY <2>1, <2>2 DEF NewMemberForm
  <2> HIDE DEF f
  <2>4. \A g \in {"slotLabel"} : Enters(g, f[g])
    BY <2>2, <2>3, Entered DEF Blank, Null, Absent
  <2>5. Enters("isRequired", f.isRequired)
    BY <1>5, <2>3, Entered DEF Blank, Null, Absent
  <2> QED
    BY <1>5, <2>2, <2>3, <2>4, <2>5 DEF f
<1>6. CASE kind = "editor"
  <2>1. f = NewEditorForm
    BY <1>6 DEF EmptyForm
  <2>2. /\ Fields(kind) = {"fullName", "staffId", "department"} \cup {"type", "company"}
        /\ {"fullName", "staffId", "department"} \subseteq Texts
    BY <1>6 DEF Fields, Texts
  <2>3. /\ DOMAIN f = Fields(kind)
        /\ \A g \in {"fullName", "staffId", "department"} : f[g] = Blank
        /\ f.type = "INTERNAL"
        /\ f.company = Absent
    BY <2>1, <2>2 DEF NewEditorForm
  <2> HIDE DEF f
  <2>4. \A g \in {"fullName", "staffId", "department"} : Enters(g, f[g])
    BY <2>2, <2>3, Entered DEF Blank, Null, Absent
  <2>5. Enters("type", f.type)
    BY <1>6, <2>3, Entered DEF Blank, Null, Absent
  <2>6. Enters("company", f.company)
    BY <1>6, <2>3, Entered DEF Blank, Null, Absent
  <2> QED
    BY <1>6, <2>2, <2>3, <2>4, <2>5, <2>6 DEF f
<1>7. CASE kind = "category"
  <2>1. f = NewCategoryForm
    BY <1>7 DEF EmptyForm
  <2>2. /\ Fields(kind) = {"name", "code"} \cup {"sortOrder"}
        /\ {"name", "code"} \subseteq Texts
    BY <1>7 DEF Fields, Texts
  <2>3. /\ DOMAIN f = Fields(kind)
        /\ \A g \in {"name", "code"} : f[g] = Blank
        /\ f.sortOrder = 0
    BY <2>1, <2>2 DEF NewCategoryForm
  <2> HIDE DEF f
  <2>4. \A g \in {"name", "code"} : Enters(g, f[g])
    BY <2>2, <2>3, Entered DEF Blank, Null, Absent
  <2>5. Enters("sortOrder", f.sortOrder)
    BY <1>7, <2>3, Entered DEF Blank, Null, Absent
  <2> QED
    BY <1>7, <2>2, <2>3, <2>4, <2>5 DEF f
<1>8. CASE kind = "software"
  <2>1. f = NewSoftwareForm
    BY <1>8 DEF EmptyForm
  <2>2. /\ Fields(kind) = {"name", "version"} \cup {"sortOrder"}
        /\ {"name", "version"} \subseteq Texts
    BY <1>8 DEF Fields, Texts
  <2>3. /\ DOMAIN f = Fields(kind)
        /\ \A g \in {"name", "version"} : f[g] = Blank
        /\ f.sortOrder = 0
    BY <2>1, <2>2 DEF NewSoftwareForm
  <2> HIDE DEF f
  <2>4. \A g \in {"name", "version"} : Enters(g, f[g])
    BY <2>2, <2>3, Entered DEF Blank, Null, Absent
  <2>5. Enters("sortOrder", f.sortOrder)
    BY <1>8, <2>3, Entered DEF Blank, Null, Absent
  <2> QED
    BY <1>8, <2>2, <2>3, <2>4, <2>5 DEF f
<1>9. CASE kind = "item"
  <2>1. f = NewItemForm
    BY <1>9 DEF EmptyForm
  <2>2. /\ Fields(kind) = {"label", "description"} \cup {"phase", "isRequired", "sortOrder"}
        /\ {"label", "description"} \subseteq Texts
    BY <1>9 DEF Fields, Texts
  <2>3. /\ DOMAIN f = Fields(kind)
        /\ \A g \in {"label", "description"} : f[g] = Blank
        /\ f.phase = "BOTH"
        /\ f.isRequired = "on"
        /\ f.sortOrder = 0
    BY <2>1, <2>2 DEF NewItemForm
  <2> HIDE DEF f
  <2>4. \A g \in {"label", "description"} : Enters(g, f[g])
    BY <2>2, <2>3, Entered DEF Blank, Null, Absent
  <2>5. Enters("phase", f.phase)
    BY <1>9, <2>3, Entered DEF Blank, Null, Absent
  <2>6. Enters("isRequired", f.isRequired)
    BY <1>9, <2>3, Entered DEF Blank, Null, Absent
  <2>7. Enters("sortOrder", f.sortOrder)
    BY <1>9, <2>3, Entered DEF Blank, Null, Absent
  <2> QED
    BY <1>9, <2>2, <2>3, <2>4, <2>5, <2>6, <2>7 DEF f
<1> QED
  BY <1>1, <1>2, <1>3, <1>4, <1>5, <1>6, <1>7, <1>8, <1>9, FormsAssumption DEF RecordKinds

LEMMA OpenFormKeepsForms ==
    ASSUME FormsInv, OpenForm
    PROVE  FormsInv'
<1>1. /\ UNCHANGED <<kind, zone, row, profileName>> /\ typed' = {}
      /\ opened' = Reads(row)
      /\ form' = IF row = NoRecord THEN EmptyForm ELSE FilledFrom(row)
      /\ row.kind = "booking" => EditScopeFor(row.status) # "none"
  BY DEF OpenForm
<1>2. kind \in Kinds /\ zone \in Zones /\ (row = NoRecord \/ GoodRow(row))
      /\ profileName \in {"profile", "renamed"}
  BY DEF FormsInv
<1>3. CASE row = NoRecord
  <2>1. opened' = NoRecord
    BY <1>1, <1>3 DEF Reads, NoRecord
  <2>2. /\ DOMAIN form' = Fields(kind)
        /\ \A g \in Fields(kind) : Enters(g, form'[g])
        /\ kind = "editor" => form'.type = "INTERNAL" /\ form'.company = Absent
    BY <1>1, <1>2, <1>3, EmptyFormIsEntered
  <2>3. Editing'
    BY <1>1, <1>3, <2>1, <2>2, SameMeaning DEF Editing
  <2> QED
    BY <1>1, <1>2, <1>3, <2>3 DEF FormsInv
<1>4. CASE row # NoRecord
  <2>1. GoodRow(row) /\ row.kind = kind
    BY <1>2, <1>4 DEF GoodRow
  <2>2. /\ GoodRow(opened')
        /\ DOMAIN form' = Fields(kind)
        /\ \A g \in Fields(kind) : Shows(g, form'[g], opened'[g])
        /\ kind = "booking" => /\ EditScopeFor(opened'.status) # "none"
                               /\ opened'.requesterName = Null => opened'.editorId = Null
    <3>1. CASE kind = "booking"
      <4>1. form' = BookingForm(row)
        BY <1>1, <1>4, <2>1, <3>1 DEF FilledFrom
      <4> QED
        BY <1>1, <1>2, <2>1, <3>1, <4>1, BookingIsShown
    <3>2. CASE kind # "booking"
      <4>1. opened' = row /\ form' = FilledFrom(row)
        BY <1>1, <1>4, <2>1, <3>2 DEF Reads
      <4> QED
        BY <1>2, <2>1, <3>2, <4>1, RecordIsShown
    <3> QED
      BY <3>1, <3>2
  <2>3. opened' # NoRecord
    BY <1>2, <2>2, FormsAssumption DEF GoodRow, NoRecord, RecordKinds
  <2>4. kind = "editor" =>
          /\ form'.department = IF opened'.type = "INTERNAL" THEN Shown(opened'.department) ELSE Absent
          /\ form'.company = IF opened'.type = "EXTERNAL" THEN Shown(opened'.company) ELSE Absent
          /\ form'.type = opened'.type
          /\ Holds("department", opened'.department) /\ Holds("company", opened'.company)
          /\ Holds("type", opened'.type)
    <3> SUFFICES ASSUME kind = "editor"
                 PROVE  /\ form'.department = IF opened'.type = "INTERNAL" THEN Shown(opened'.department) ELSE Absent
                        /\ form'.company = IF opened'.type = "EXTERNAL" THEN Shown(opened'.company) ELSE Absent
                        /\ form'.type = opened'.type
                        /\ Holds("department", opened'.department) /\ Holds("company", opened'.company)
                        /\ Holds("type", opened'.type)
      OBVIOUS
    <3>1. opened' = row /\ form' = EditorForm(row)
      BY <1>1, <1>4, <2>1 DEF Reads, FilledFrom
    <3>2. {"department", "company", "type"} \subseteq Fields(kind)
      BY DEF Fields
    <3> QED
      BY <2>1, <3>1, <3>2 DEF EditorForm, GoodRow
  <2>5. kind = "editor" => /\ form'.type = "EXTERNAL" => form'.department = Absent
                           /\ form'.type = "INTERNAL" => form'.company = Absent
    BY <2>4
  <2>6. \A g \in Fields(kind) : Enters(g, form'[g])
    <3> SUFFICES ASSUME NEW g \in Fields(kind) PROVE Enters(g, form'[g])
      OBVIOUS
    <3>1. CASE g \in {"department", "company"}
      <4>1. kind = "editor"
        BY <1>2, <3>1, FormsAssumption DEF Fields, BookingFields, Times, RecordKinds
      <4>2. form'[g] # Null
        BY <2>4, <3>1, <4>1 DEF Shown, Blank, Absent, Null
      <4> QED
        BY <3>1, <4>2 DEF Enters, Texts, Times, Picks
    <3>2. CASE g = "status"
      <4>1. /\ form'[g] \in {Absent, opened'[g]} /\ Holds(g, opened'[g])
        BY <2>2, <3>2 DEF Shows, GoodRow
      <4>2. form'[g] \notin {Blank, Null}
        BY <3>2, <4>1 DEF Holds, Blank, Absent, Null
      <4> QED
        BY <3>2, <4>2 DEF Enters, Texts, Times, Picks
    <3>3. CASE g \notin {"department", "company", "status"}
      BY <1>2, <2>2, <3>3, ShownIsEntered DEF GoodRow
    <3> QED
      BY <3>1, <3>2, <3>3
  <2>7. ShowsTheRecord'
    BY <1>1, <2>2, <2>4, SameMeaning DEF ShowsTheRecord
  <2>8. Editing'
    BY <1>1, <1>4, <2>2, <2>3, <2>5, <2>6, <2>7, SameMeaning DEF Editing
  <2> QED
    BY <1>1, <1>2, <2>1, <2>8, SameMeaning DEF FormsInv
<1> QED
  BY <1>3, <1>4

\* What is typed into a field, the field may hold.
LEMMA TypedIsEntered ==
    ASSUME FormsInv, outcome = "editing", NEW g \in Fields(kind), NEW v \in Choices(g)
    PROVE  /\ Enters(g, v)
           /\ g \in Times => v \in Readings \/ (g = "collectionDate" /\ v = NoCollection)
           /\ g \in {"department", "company"} => form[g] # Absent
<1>1. Editing /\ kind \in Kinds
  BY DEF FormsInv
<1>2. Readings \subseteq Walls
  BY DEF Walls
<1>3. CASE g \in Times
  <2>1. v \in Readings \/ (g = "collectionDate" /\ v = NoCollection)
    BY <1>3 DEF Choices, Times
  <2> QED
    BY <1>2, <1>3, <2>1, Entered DEF Times
<1>4. CASE g \in {"sortOrder", "quantity"}
  BY <1>4, Entered DEF Times
<1>5. CASE g = "isRequired"
  <2>1. v \in IF kind = "member" THEN {"true", "false"} ELSE {"on", Absent}
    BY <1>5 DEF Choices
  <2> QED
    BY <1>5, <2>1, Entered DEF Times
<1>6. CASE g = "type"
  <2>1. v \in {"INTERNAL", "EXTERNAL"}
    BY <1>6 DEF Choices
  <2> QED
    BY <1>6, <2>1, Entered DEF Times
<1>7. CASE g \in {"phase", "suitcaseStatus", "kitId"}
  <2>1. v \in {"HANDOVER", "BOTH", "GOOD", "DAMAGED", "kit", "other"}
    BY <1>7 DEF Choices
  <2>2. v \notin {Blank, Null, Absent}
    BY <2>1 DEF Blank, Null, Absent
  <2> QED
    BY <1>7, <2>2, Entered DEF Times
<1>8. CASE g = "status"
  <2>1. v \in IF form.status = Absent THEN {}
              ELSE IF row = NoRecord THEN {"AVAILABLE", "DAMAGED"}
              ELSE IF kind = "kit" THEN KitStatusOptions(opened) ELSE AssetStatusOptions(opened)
    BY <1>8 DEF Choices
  <2>2. CASE row = NoRecord
    <3>1. v \notin {Blank, Null, Absent}
      BY <2>1, <2>2 DEF Blank, Null, Absent
    <3> QED
      BY <1>8, <3>1, Entered DEF Times
  <2>3. CASE row # NoRecord
    <3>1. GoodRow(opened)
      BY <1>1, <2>3 DEF Editing, ShowsTheRecord
    <3>2. opened.status \notin {Blank, Null, Absent}
      BY <1>8, <3>1 DEF GoodRow, Holds
    <3>3. v \in {opened.status, "AVAILABLE", "MAINTENANCE", "DAMAGED", "MISSING", "RETIRED"}
      BY <2>1, <2>3 DEF KitStatusOptions, AssetStatusOptions
    <3>4. v \notin {Blank, Null, Absent}
      BY <3>2, <3>3 DEF Blank, Null, Absent
    <3> QED
      BY <1>8, <3>4, Entered DEF Times
  <2> QED
    BY <2>2, <2>3
<1>9. CASE g \in Texts
  <2>1. v \in IF form[g] = Absent THEN {} ELSE {Blank, "typed"}
    BY <1>9 DEF Choices, Texts
  <2>2. v \notin {Null, Absent} /\ form[g] # Absent
    BY <2>1 DEF Blank, Null, Absent
  <2> QED
    BY <1>9, <2>2, Entered DEF Texts, Times
<1> QED
  BY <1>1, <1>3, <1>4, <1>5, <1>6, <1>7, <1>8, <1>9, FieldsAreKnown DEF Picks

LEMMA TypeFieldKeepsForms ==
    ASSUME FormsInv, TypeField
    PROVE  FormsInv'
<1>1. PICK field, v :
        /\ field \in DOMAIN form \ typed /\ v \in Choices(field)
        /\ form' = IF field = "type" THEN Retyped(form, v) ELSE [form EXCEPT ![field] = v]
        /\ typed' = typed \cup {field}
                      \cup (IF field = "type" THEN {"department", "company"} ELSE {})
  <2>1. PICK field \in DOMAIN form \ typed :
          /\ \E v \in Choices(field) :
                form' = IF field = "type" THEN Retyped(form, v) ELSE [form EXCEPT ![field] = v]
          /\ typed' = typed \cup {field}
                        \cup (IF field = "type" THEN {"department", "company"} ELSE {})
    BY DEF TypeField
  <2> QED
    BY <2>1
<1>2. /\ UNCHANGED <<kind, zone, row, profileName, opened, outcome>>
      /\ outcome = "editing"
  BY DEF TypeField
<1>3. Editing /\ kind \in Kinds /\ DOMAIN form = Fields(kind)
  BY <1>2 DEF FormsInv, Editing
<1>4. /\ Enters(field, v)
      /\ field \in Times => v \in Readings \/ (field = "collectionDate" /\ v = NoCollection)
      /\ field \in {"department", "company"} => form[field] # Absent
  BY <1>1, <1>2, <1>3, TypedIsEntered
<1>5. field = "type" => kind = "editor"
  BY <1>1, <1>3, FormsAssumption DEF Fields, BookingFields, Times, RecordKinds
<1>6. kind = "editor" => Fields(kind) = {"fullName", "staffId", "type", "department", "company"}
  BY DEF Fields
<1>7. CASE field # "type"
  <2>1. /\ DOMAIN form' = Fields(kind) /\ form'[field] = v
        /\ \A g \in Fields(kind) : g # field => form'[g] = form[g]
        /\ typed' = typed \cup {field}
    BY <1>1, <1>3, <1>7
  <2>2. \A g \in Fields(kind) : Enters(g, form'[g])
    BY <1>3, <1>4, <2>1 DEF Editing
  <2>3. \A g \in Fields(kind) \cap typed' \cap Times :
          form'[g] \in Readings \/ (g = "collectionDate" /\ form'[g] = NoCollection)
    BY <1>3, <1>4, <2>1 DEF Editing
  <2>4. kind = "editor" => /\ form'.type = "EXTERNAL" => form'.department = Absent
                           /\ form'.type = "INTERNAL" => form'.company = Absent
    BY <1>3, <1>4, <1>6, <1>7, <2>1 DEF Editing
  <2>5. opened # NoRecord => ShowsTheRecord'
    BY <1>2, <1>3, <1>6, <2>1, SameMeaning DEF ShowsTheRecord, Editing
  <2>6. Editing'
    BY <1>2, <1>3, <2>1, <2>2, <2>3, <2>4, <2>5, SameMeaning DEF Editing
  <2> QED
    BY <1>2, <2>6, SameMeaning DEF FormsInv
<1>8. CASE field = "type"
  <2>1. /\ form' = Retyped(form, v) /\ kind = "editor"
        /\ typed' = typed \cup {"type", "department", "company"}
    BY <1>1, <1>5, <1>8
  <2>2. v \in {"INTERNAL", "EXTERNAL"}
    BY <1>4, <1>8 DEF Enters
  <2>3. /\ DOMAIN form' = Fields(kind) /\ form'.type = v
        /\ \A g \in {"fullName", "staffId"} : form'[g] = form[g]
        /\ form'.department = IF v = "EXTERNAL" THEN Absent
                              ELSE IF form.department = Absent
                              THEN (IF opened = NoRecord THEN Blank ELSE Shown(opened.department))
                              ELSE form.department
        /\ form'.company = IF v = "INTERNAL" THEN Absent
                           ELSE IF form.company = Absent
                           THEN (IF opened = NoRecord THEN Blank ELSE Shown(opened.company))
                           ELSE form.company
    BY <1>3, <1>6, <2>1 DEF Retyped
  <2>4. form'.department # Null /\ form'.company # Null
    <3>1. form.department # Null /\ form.company # Null
      BY <1>3, <1>6, <2>1 DEF Editing, Enters, Texts
    <3>2. \A x : Shown(x) # Null
      BY DEF Shown, Blank, Null
    <3>3. Blank # Null /\ Absent # Null
      BY DEF Blank, Null, Absent
    <3> QED
      BY <2>3, <3>1, <3>2, <3>3
  <2>5. \A g \in Fields(kind) : Enters(g, form'[g])
    <3>1. Enters("department", form'.department) /\ Enters("company", form'.company)
      BY <2>4, Entered
    <3>2. Enters("type", form'.type)
      BY <2>2, <2>3, Entered
    <3>3. \A g \in {"fullName", "staffId"} : Enters(g, form'[g])
      BY <1>3, <1>6, <2>1, <2>3 DEF Editing
    <3> QED
      BY <1>6, <2>1, <3>1, <3>2, <3>3
  <2>6. Fields(kind) \cap Times = {}
    BY <1>6, <2>1 DEF Times
  <2>7. opened # NoRecord => ShowsTheRecord'
    BY <1>2, <1>3, <1>6, <2>1, <2>3, SameMeaning DEF ShowsTheRecord, Editing
  <2>8. Editing'
    BY <1>2, <1>3, <2>1, <2>2, <2>3, <2>5, <2>6, <2>7, SameMeaning DEF Editing
  <2> QED
    BY <1>2, <2>8, SameMeaning DEF FormsInv
<1> QED
  BY <1>7, <1>8

LEMMA FillRequiredKeepsForms ==
    ASSUME FormsInv, FillRequired
    PROVE  FormsInv'
<1>1. /\ UNCHANGED <<kind, zone, row, profileName, opened, outcome>>
      /\ outcome = "editing" /\ opened = NoRecord /\ typed' = Required
      /\ form' = [g \in DOMAIN form |-> IF g \in Required THEN "first" ELSE form[g]]
  BY DEF FillRequired
<1>2. Editing /\ kind \in Kinds /\ DOMAIN form = Fields(kind)
  BY <1>1 DEF FormsInv, Editing
<1>3. Required \subseteq Fields(kind) \cap (Texts \ {"department", "company"})
  BY <1>2 DEF Required, Texts
<1>4. \A g \in Fields(kind) : form'[g] = IF g \in Required THEN "first" ELSE form[g]
  BY <1>1, <1>2
<1>5. \A g \in Fields(kind) : Enters(g, form'[g])
  <2>1. "first" \notin {Null, Absent}
    BY DEF Null, Absent
  <2> QED
    BY <1>2, <1>3, <1>4, <2>1, Entered DEF Editing
<1>6. Texts \cap Times = {}
  BY DEF Texts, Times
<1>7. kind = "editor" => /\ form'.type = form.type /\ form'.department = form.department
                         /\ form'.company = form.company
  <2>1. kind = "editor" => {"type", "department", "company"} \subseteq Fields(kind)
    BY DEF Fields
  <2>2. "type" \notin Texts
    BY DEF Texts
  <2> QED
    BY <1>3, <1>4, <2>1, <2>2
<1>8. DOMAIN form' = Fields(kind)
  BY <1>1, <1>2
<1>9. Editing'
  BY <1>1, <1>2, <1>3, <1>5, <1>6, <1>7, <1>8, SameMeaning DEF Editing
<1> QED
  BY <1>1, <1>9, SameMeaning DEF FormsInv

LEMMA SaveFormKeepsForms ==
    ASSUME FormsInv, SaveForm
    PROVE  FormsInv'
<1>1. /\ UNCHANGED <<kind, zone, profileName>> /\ outcome = "editing" /\ outcome' # "editing"
      /\ row' \in Written \/ UNCHANGED row
  BY DEF SaveForm
<1>2. Editing /\ kind \in Kinds /\ zone \in Zones /\ (row = NoRecord \/ GoodRow(row))
  BY <1>1 DEF FormsInv
<1>3. row' = NoRecord \/ GoodRow(row')
  BY <1>1, <1>2, WrittenIsRight DEF Wrote
<1> QED
  BY <1>1, <1>2, <1>3, SameMeaning DEF FormsInv

LEMMA MoveOnKeepsForms ==
    ASSUME FormsInv, MoveOn
    PROVE  FormsInv'
<1>1. /\ UNCHANGED <<kind, zone, profileName, form, opened, typed, outcome>>
      /\ kind \in Kinds /\ (row = NoRecord \/ GoodRow(row))
  BY DEF MoveOn, FormsInv
<1>2. row # NoRecord /\ GoodRow(row) /\ GoodRow(row')
  <2>1. CASE MoveBooking
    <3>1. PICK status \in {"RESERVED", "READY_FOR_HANDOVER", "CHECKED_OUT"}, free \in BOOLEAN :
            row' = [row EXCEPT !.status = status, !.free = free]
      BY <2>1 DEF MoveBooking
    <3>2. row # NoRecord /\ GoodRow(row) /\ kind = "booking"
      BY <1>1, <2>1, RowHasItsKind DEF MoveBooking, RecordKinds
    <3>3. /\ Fields(kind) = {"kitId", "requesterName", "requesterStaffId", "projectName", "notes",
                             "bookingStart", "bookingEnd", "collectionDate", "expectedReturnDate"}
          /\ Columns(kind) = Fields(kind) \cup {"kind", "editorId", "status", "free"}
          /\ NeverNull(kind) = {}
      BY <3>2 DEF Fields, Columns, NeverNull, BookingFields, Times
    <3>4. /\ DOMAIN row' = Columns(kind) /\ row'.status = status
          /\ \A g \in Columns(kind) \ {"status", "free"} : row'[g] = row[g]
      BY <3>1, <3>2, <3>3 DEF GoodRow
    <3>5. ScheduleOf(row') = ScheduleOf(row)
      BY <3>3, <3>4 DEF ScheduleOf
    <3>6. status \notin {Blank, Absent, Null}
      BY DEF Blank, Absent, Null
    <3>7. GoodRow(row')
      BY <3>2, <3>3, <3>4, <3>5, <3>6 DEF GoodRow
    <3> QED
      BY <3>2, <3>7
  <2>2. CASE MoveKit
    <3>1. PICK status \in {"AVAILABLE", "RESERVED", "CHECKED_OUT"}, booked \in BOOLEAN :
            row' = [row EXCEPT !.status = status, !.booked = booked,
                               !.filled = @ \/ status \in WorkflowStatuses]
      BY <2>2 DEF MoveKit
    <3>2. row # NoRecord /\ GoodRow(row) /\ kind = "kit"
      BY <1>1, <2>2, RowHasItsKind DEF MoveKit, RecordKinds
    <3>3. /\ Fields(kind) = {"kitCode", "admBarcode", "suitcaseStatus", "status", "notes"}
          /\ Columns(kind) = Fields(kind) \cup {"kind", "filled", "booked"}
          /\ NeverNull(kind) = {"kitCode"}
      BY <3>2 DEF Fields, Columns, NeverNull
    <3>4. /\ DOMAIN row' = Columns(kind) /\ row'.status = status
          /\ \A g \in Columns(kind) \ {"status", "filled", "booked"} : row'[g] = row[g]
      BY <3>1, <3>2, <3>3 DEF GoodRow
    <3>5. status \notin {Blank, Absent, Null} /\ Holds("status", status)
      BY DEF Holds, Texts, Times, Blank, Absent, Null
    <3>6. GoodRow(row')
      BY <3>2, <3>3, <3>4, <3>5 DEF GoodRow
    <3> QED
      BY <3>2, <3>6
  <2>3. CASE MoveAsset
    <3>1. PICK status \in {"AVAILABLE", "CHECKED_OUT", "MAINTENANCE"} :
            row' = [row EXCEPT !.status = status, !.maintained = status = "MAINTENANCE",
                               !.inKit = status = "CHECKED_OUT"]
      BY <2>3 DEF MoveAsset
    <3>2. row # NoRecord /\ GoodRow(row) /\ kind = "asset"
      BY <1>1, <2>3, RowHasItsKind DEF MoveAsset, RecordKinds
    <3>3. /\ Fields(kind) = {"name", "categoryId", "serialNumber", "status", "notes"}
          /\ Columns(kind) = Fields(kind) \cup {"kind", "inKit", "maintained", "retiredCategory"}
          /\ NeverNull(kind) = {"name", "categoryId"}
      BY <3>2 DEF Fields, Columns, NeverNull
    <3>4. /\ DOMAIN row' = Columns(kind) /\ row'.status = status
          /\ \A g \in Columns(kind) \ {"status", "maintained", "inKit"} : row'[g] = row[g]
      BY <3>1, <3>2, <3>3 DEF GoodRow
    <3>5. status \notin {Blank, Absent, Null} /\ Holds("status", status)
      BY DEF Holds, Texts, Times, Blank, Absent, Null
    <3>6. GoodRow(row')
      BY <3>2, <3>3, <3>4, <3>5 DEF GoodRow
    <3> QED
      BY <3>2, <3>6
  <2>4. CASE RetireCategory
    <3>1. row' = [row EXCEPT !.retiredCategory = TRUE]
      BY <2>4 DEF RetireCategory
    <3>2. row # NoRecord /\ GoodRow(row) /\ kind = "asset"
      BY <1>1, <2>4, RowHasItsKind DEF RetireCategory, RecordKinds
    <3>3. /\ Fields(kind) = {"name", "categoryId", "serialNumber", "status", "notes"}
          /\ Columns(kind) = Fields(kind) \cup {"kind", "inKit", "maintained", "retiredCategory"}
          /\ NeverNull(kind) = {"name", "categoryId"}
      BY <3>2 DEF Fields, Columns, NeverNull
    <3>4. /\ DOMAIN row' = Columns(kind)
          /\ \A g \in Columns(kind) \ {"retiredCategory"} : row'[g] = row[g]
      BY <3>1, <3>2 DEF GoodRow
    <3>5. GoodRow(row')
      BY <3>2, <3>3, <3>4 DEF GoodRow
    <3> QED
      BY <3>2, <3>5
  <2> QED
    BY <2>1, <2>2, <2>3, <2>4 DEF MoveOn
<1>3. row' # NoRecord
  BY <1>1, <1>2, FormsAssumption DEF GoodRow, NoRecord, RecordKinds
<1>4. Editing => Editing'
  <2>1. ShowsTheRecord => ShowsTheRecord'
    BY <1>1, SameMeaning DEF ShowsTheRecord
  <2> QED
    BY <1>1, <1>2, <1>3, <2>1, SameMeaning DEF Editing
<1> QED
  BY <1>1, <1>2, <1>4, SameMeaning DEF FormsInv

LEMMA FormsStepsKeepForms ==
    ASSUME FormsInv, [FormsNext]_formVars
    PROVE  FormsInv'
<1>1. CASE RenameProfile
  <2>1. /\ UNCHANGED <<kind, zone, row, form, opened, typed, outcome>>
        /\ profileName' = "renamed"
    BY <1>1 DEF RenameProfile
  <2>2. ShowsTheRecord => ShowsTheRecord'
    BY <2>1, SameMeaning DEF ShowsTheRecord
  <2>3. Editing => Editing'
    BY <2>1, <2>2, SameMeaning DEF Editing
  <2> QED
    BY <2>1, <2>3, SameMeaning DEF FormsInv
<1>2. CASE UNCHANGED formVars
  <2>1. UNCHANGED <<kind, zone, row, profileName, form, opened, typed, outcome>>
    BY <1>2 DEF formVars
  <2>2. ShowsTheRecord => ShowsTheRecord'
    BY <2>1, SameMeaning DEF ShowsTheRecord
  <2>3. Editing => Editing'
    BY <2>1, <2>2, SameMeaning DEF Editing
  <2> QED
    BY <2>1, <2>3, SameMeaning DEF FormsInv
<1> QED
  BY <1>1, <1>2, LegacyBookingKeepsForms, OpenFormKeepsForms, TypeFieldKeepsForms,
     FillRequiredKeepsForms, SaveFormKeepsForms, MoveOnKeepsForms DEF FormsNext

\* Every record is a proper one, and the fields of an open form that nobody has
\* touched show it as it was when the page was opened.
THEOREM FormsShowTheRecord == FormsSpec => []FormsInv
<1>1. FormsInit => FormsInv
  BY DEF FormsInit, FormsInv
<1>2. FormsInv /\ [FormsNext]_formVars => FormsInv'
  BY FormsStepsKeepForms
<1> QED
  BY <1>1, <1>2, PTL DEF FormsSpec

\* Saving a form changes what was typed into it, to what was typed, and nothing
\* else that nobody changed since the page was opened; a form saved as it was
\* opened is accepted (the edit and create forms and the services behind them).
THEOREM FormsSaveWhatIsTyped == FormsSpec => SavesAreFaithful
<1>1. ASSUME FormsInv, FormsNext
      PROVE  FaithfulSave
  <2>1. CASE SaveForm
    <3>1. /\ kind \in Kinds /\ zone \in Zones /\ Editing /\ (row = NoRecord \/ GoodRow(row))
          /\ DOMAIN form = Fields(kind)
      BY <1>1, <2>1 DEF SaveForm, FormsInv, Editing
    <3>2. CASE row' \in Written /\ outcome' = "saved"
      BY <3>1, <3>2, SavedFaithfully DEF FaithfulSave
    <3>3. CASE Written = {} /\ outcome' = "refused"
      BY <3>1, <3>3, FormAccepted DEF FaithfulSave
    <3> QED
      BY <2>1, <3>2, <3>3 DEF SaveForm
  <2>2. CASE ~SaveForm
    <3>1. outcome = "editing" => outcome' = "editing"
      BY <1>1, <2>2 DEF FormsNext, LegacyBooking, OpenForm, TypeField, FillRequired, MoveOn,
                        RenameProfile
    <3> QED
      BY <3>1 DEF FaithfulSave
  <2> QED
    BY <2>1, <2>2
<1>2. FormsInv /\ [FormsNext]_formVars => [FaithfulSave]_formVars
  BY <1>1
<1> QED
  BY <1>2, FormsShowTheRecord, PTL DEF FormsSpec, SavesAreFaithful
=============================================================================
