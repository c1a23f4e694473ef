------------------------------ MODULE Histories ------------------------------
(* The trails on the workspaces of a kit, of one piece of equipment in it and  *)
(* of an editor: what happened, newest first, put together when the page is    *)
(* opened from the rows of several tables (getKitHistory, getAssetHistory,     *)
(* getEditorActivity).  Each table is read newest rows first and no further    *)
(* than the limit of the trail, and so is what they give together.             *)
(*                                                                             *)
(* One kit, one member, one editor, their bookings, one issue against kit and  *)
(* member.  An operation here is only what it leaves in those tables; whether  *)
(* it is allowed is said in the other modules.                                 *)
EXTENDS Integers, FiniteSets

CONSTANTS TrailBookings,   \* the bookings, 1 .. some number
          TrailLimits,     \* how many entries a trail shows
          LastInstant      \* bound: one thing happens at each instant up to this one

ASSUME HistoriesAssumption ==
    /\ IsFiniteSet(TrailBookings) /\ TrailBookings \subseteq Nat \ {0}
    /\ TrailLimits \subseteq Nat

VARIABLES
    instant,     \* the last instant something happened at
    past,        \* (history) what happened
    audit,       \* audit_logs of the three
    membership,  \* the kit_assets row: its times, 0 for null
    booked,      \* booked[b]: the Booking row's times
    inspected,   \* inspected[b][d]: the times of b's document d, which lists the member
    raised,      \* the Issue row's times
    statusLog    \* asset_status_logs of the member

historyVars == <<instant, past, audit, membership, booked, inspected, raised, statusLog>>

Documents == {"HANDOVER", "RETURN"}
NoBooking == [created |-> 0, collection |-> 0, returned |-> 0, cancelled |-> 0]
NoInspection == [started |-> 0, completed |-> 0]

\* A seeded member was put in the kit with no audit entry.
HistoriesInit ==
    /\ instant = 1
    /\ audit = {} /\ statusLog = {}
    /\ \/ membership = [added |-> 0, removed |-> 0] /\ past = {}
       \/ /\ membership = [added |-> 1, removed |-> 0]
          /\ past = {[what |-> "added", of |-> 0, at |-> 1]}
    /\ booked = [b \in TrailBookings |-> NoBooking]
    /\ inspected = [b \in TrailBookings |-> [d \in Documents |-> NoInspection]]
    /\ raised = [reported |-> 0, resolved |-> 0]

-----------------------------------------------------------------------------
(* Operations *)

Instant == instant + 1
Happens(whats, of) ==
    /\ instant < LastInstant
    /\ instant' = Instant
    /\ past' = past \cup {[what |-> w, of |-> of, at |-> Instant] : w \in whats}

Audited(on, what) == audit' = audit \cup {[on |-> on, what |-> what, of |-> 0, at |-> Instant]}

\* updateKit, updateAsset, updateEditor: any audited change of the record itself.
CorrectDetails(on) ==
    /\ Happens({on}, 0) /\ Audited(on, on)
    /\ UNCHANGED <<membership, booked, inspected, raised, statusLog>>

InTheKit == membership.added # 0 /\ membership.removed = 0
IsOut(b) == booked[b].returned = 0 /\ inspected[b]["HANDOVER"].completed # 0

\* A member that was in the kit before gets its old row back.
AddKitAsset ==
    /\ ~InTheKit
    /\ Happens({"added"}, 0) /\ Audited("Kit", "added")
    /\ membership' = [added |-> Instant, removed |-> 0]
    /\ UNCHANGED <<booked, inspected, raised, statusLog>>

RemoveKitAsset ==
    /\ InTheKit /\ \A b \in TrailBookings : ~IsOut(b)
    /\ Happens({"removed"}, 0) /\ Audited("Kit", "removed")
    /\ membership' = [membership EXCEPT !.removed = Instant]
    /\ UNCHANGED <<booked, inspected, raised, statusLog>>

\* The form may name a time of collection; what is on record until the kit is
\* collected is the plan.
CreateBooking(b) ==
    /\ booked[b].created = 0
    /\ Happens({"booked"}, b)
    /\ \E planned \in {0, Instant + 1} :
         booked' = [booked EXCEPT ![b].created = Instant, ![b].collection = planned]
    /\ UNCHANGED <<audit, membership, inspected, raised, statusLog>>

CancelBooking(b) ==
    /\ booked[b].created # 0 /\ booked[b].cancelled = 0
    /\ inspected[b]["HANDOVER"].completed = 0
    /\ Happens({"cancelled"}, b)
    /\ booked' = [booked EXCEPT ![b].cancelled = Instant]
    /\ UNCHANGED <<audit, membership, inspected, raised, statusLog>>

StartDocument(b, d) ==
    /\ inspected[b][d].started = 0 /\ booked[b].created # 0 /\ booked[b].cancelled = 0
    /\ IF d = "HANDOVER" THEN InTheKit ELSE IsOut(b)
    /\ Happens({"started"}, b)
    /\ inspected' = [inspected EXCEPT ![b][d].started = Instant]
    /\ UNCHANGED <<audit, membership, booked, raised, statusLog>>

\* completeHandover, completeReturn: the document, the booking, the kit's
\* status and the member's.
CompleteDocument(b, d) ==
    /\ inspected[b][d].started # 0 /\ inspected[b][d].completed = 0
    /\ booked[b].cancelled = 0
    /\ d = "HANDOVER" => InTheKit /\ \A o \in TrailBookings : ~IsOut(o)
    /\ Happens({IF d = "HANDOVER" THEN "collected" ELSE "returned", "kit status", "status"}, b)
    /\ inspected' = [inspected EXCEPT ![b][d].completed = Instant]
    /\ booked' = IF d = "HANDOVER" THEN [booked EXCEPT ![b].collection = Instant]
                 ELSE [booked EXCEPT ![b].returned = Instant]
    /\ audit' = audit \cup {[on |-> "Kit", what |-> "kit status", of |-> b, at |-> Instant]}
    /\ statusLog' = statusLog \cup {[of |-> b, at |-> Instant]}
    /\ UNCHANGED <<membership, raised>>

ReportIssue ==
    /\ raised.reported = 0
    /\ Happens({"reported"}, 0)
    /\ raised' = [raised EXCEPT !.reported = Instant]
    /\ UNCHANGED <<audit, membership, booked, inspected, statusLog>>

\* resolveIssue, reopenIssue.
SettleIssue ==
    /\ raised.reported # 0
    /\ IF raised.resolved = 0
       THEN Happens({"resolved"}, 0) /\ raised' = [raised EXCEPT !.resolved = Instant]
       ELSE Happens({}, 0) /\ raised' = [raised EXCEPT !.resolved = 0]
    /\ UNCHANGED <<audit, membership, booked, inspected, statusLog>>

HistoriesNext ==
    \/ \E on \in {"Kit", "Asset", "EditorProfile"} : CorrectDetails(on)
    \/ AddKitAsset \/ RemoveKitAsset \/ ReportIssue \/ SettleIssue
    \/ \E b \in TrailBookings :
         \/ CreateBooking(b) \/ CancelBooking(b)
         \/ \E d \in Documents : StartDocument(b, d) \/ CompleteDocument(b, d)

HistoriesSpec == HistoriesInit /\ [][HistoriesNext]_historyVars

-----------------------------------------------------------------------------
(* The trails *)

\* `orderBy: [{ createdAt: 'desc' }], take: limit'; by[r] is the time of a row.
Newest(rows, by, limit) == {r \in rows : Cardinality({o \in rows : by[o] > by[r]}) < limit}

\* The prefixes of the entries' ids, in their order: it settles which of two
\* entries of one instant is shown first.
IdOrder == [audit |-> 1, booking |-> 2, cancel |-> 3, handover |-> 4, inspection |-> 5,
            issue |-> 6, settled |-> 7, joined |-> 8, left |-> 9, return |-> 10, status |-> 11]

Entry(id, of, at, what) == [id |-> id, of |-> of, at |-> at, what |-> what]

Precedes(e, f) ==
    \/ e.at > f.at
    \/ e.at = f.at /\ IdOrder[e.id] < IdOrder[f.id]
    \/ e.at = f.at /\ e.id = f.id /\ e.of < f.of

\* `events.sort(...)' and `slice(0, limit)'.
FirstOf(entries, limit) ==
    {e \in entries : Cardinality({f \in entries : Precedes(f, e)}) < limit}

AuditsOf(on, limit) == Newest({a \in audit : a.on = on}, [a \in audit |-> a.at], limit)
AuditEntries(audits) == {Entry("audit", a.of, a.at, a.what) : a \in audits}

\* (Fault) only joining is looked up in the audit entries.
UnauditedStaysWhenJoined(audits) ==
    {e \in {Entry("joined", 0, membership.added, "added"),
            Entry("left", 0, membership.removed, "removed")} :
        e.at # 0 /\ (e.what = "added" => \A a \in audits : a.what # e.what)}

\* A membership row that has its audit entry is not reported twice.
UnauditedStays(audits) ==
    {e \in {Entry("joined", 0, membership.added, "added"),
            Entry("left", 0, membership.removed, "removed")} :
        e.at # 0 /\ \A a \in audits : a.what # e.what}

NewestBookings(limit) ==
    Newest({b \in TrailBookings : booked[b].created # 0},
           [b \in TrailBookings |-> booked[b].created], limit)

\* Milestones: a time that is not null was reached.
BookingEntries(limit) ==
    {e \in UNION {{Entry("booking", b, booked[b].created, "booked"),
                   Entry("handover", b, booked[b].collection, "collected"),
                   Entry("return", b, booked[b].returned, "returned"),
                   Entry("cancel", b, booked[b].cancelled, "cancelled")} :
                    b \in NewestBookings(limit)} : e.at # 0}

IssueEntries ==
    {e \in {Entry("issue", 0, raised.reported, "reported"),
            Entry("settled", 0, raised.resolved, "resolved")} : e.at # 0}

KitHistory(limit) ==
    LET audits == AuditsOf("Kit", limit) IN
    FirstOf(AuditEntries(audits) \cup UnauditedStays(audits) \cup BookingEntries(limit)
            \cup IssueEntries, limit)

StayEntries ==
    {e \in {Entry("joined", 0, membership.added, "added"),
            Entry("left", 0, membership.removed, "removed")} : e.at # 0}

StatusEntries(limit) ==
    {Entry("status", l.of, l.at, "status") : l \in Newest(statusLog, [l \in statusLog |-> l.at], limit)}

\* A line is as old as its document; it is told at the completion of the
\* document, or, until then, at its start, as an inspection in progress.
NewestLines(limit) ==
    Newest({l \in TrailBookings \X Documents : inspected[l[1]][l[2]].started # 0},
           [l \in TrailBookings \X Documents |-> inspected[l[1]][l[2]].started], limit)

LineEntries(limit) ==
    {LET row == inspected[l[1]][l[2]] IN
     IF row.completed = 0 THEN Entry("inspection", l[1], row.started, "started")
     ELSE Entry("inspection", l[1], row.completed,
                IF l[2] = "HANDOVER" THEN "collected" ELSE "returned") : l \in NewestLines(limit)}

AssetHistory(limit) ==
    FirstOf(AuditEntries(AuditsOf("Asset", limit)) \cup StatusEntries(limit) \cup StayEntries
            \cup LineEntries(limit) \cup IssueEntries, limit)

EditorActivity(limit) ==
    FirstOf(AuditEntries(AuditsOf("EditorProfile", limit)) \cup BookingEntries(limit), limit)

-----------------------------------------------------------------------------
(* Properties *)

Trail(on, limit) ==
    CASE on = "Kit"   -> KitHistory(limit)
      [] on = "Asset" -> AssetHistory(limit)
      [] OTHER        -> EditorActivity(limit)

Told(e) == [what |-> e.what, of |-> e.of, at |-> e.at]

\* A collection that was only planned.
Planned(e) == e.what = "collected" /\ inspected[e.of]["HANDOVER"].completed = 0

\* What each trail is about.
About(on) ==
    {on} \cup
    CASE on = "Kit"   -> {"kit status", "added", "removed", "booked", "collected", "returned",
                          "cancelled", "reported", "resolved"}
      [] on = "Asset" -> {"status", "added", "removed", "collected", "returned", "reported",
                          "resolved"}
      [] OTHER        -> {"booked", "collected", "returned", "cancelled"}

\* Rows that no longer say it: a member's row that was given back to it, with no
\* audit entry or on the trail that reads none, and an issue opened again.
Rewritten(on, p) ==
    \/ /\ p.what = "added" /\ membership.added # p.at
       /\ on = "Kit" => \A a \in audit : ~(a.what = p.what /\ a.at = p.at)
    \/ on = "Asset" /\ p.what = "removed" /\ membership.removed # p.at
    \/ p.what = "resolved" /\ raised.resolved # p.at

\* Rows that newer rows of their table keep off the trail, whatever has become
\* of them lately.
CutOff(on, p, limit) ==
    IF on = "Asset"
    THEN /\ p.what \in {"collected", "returned"}
         /\ <<p.of, IF p.what = "collected" THEN "HANDOVER" ELSE "RETURN">> \notin NewestLines(limit)
    ELSE p.of \in TrailBookings \ NewestBookings(limit)

\* Whatever the order in which things happened, and however short the trail:
\* nothing is told that did not happen (collections that were only planned
\* apart), nothing is told twice although the audit log and the membership rows
\* both report it, and what is left out is older than all that is shown, unless
\* its row was rewritten or cut off by newer rows of its table.
TrailsTellThePast ==
    \A on \in {"Kit", "Asset", "EditorProfile"}, limit \in TrailLimits :
        LET shown == Trail(on, limit)  told == {Told(e) : e \in shown} IN
        /\ \A e \in shown : Planned(e) \/ Told(e) \in past
        /\ Cardinality(told) = Cardinality(shown)
        /\ \A p \in past \ told : p.what \in About(on) =>
              \/ Cardinality(shown) = limit /\ \A e \in shown : e.at >= p.at
              \/ Rewritten(on, p) \/ CutOff(on, p, limit)
=============================================================================
