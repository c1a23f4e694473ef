-------------------------------- MODULE Lists --------------------------------
(***************************************************************************)
(* What people are shown: the paged lists with the numbers on their tabs,  *)
(* and the doors through which a booking can be seen.                      *)
(*                                                                         *)
(* A page is one request: the account is resolved, then the rows are       *)
(* counted, then one page of them is read, in three statements with no     *)
(* transaction around them.  A person walks a list page by page while      *)
(* others write.  Search terms only narrow the same where-clause and are   *)
(* left out; columns are.                                                  *)
(***************************************************************************)
EXTENDS BookingRules, FiniteSets, SequencesExt

CONSTANTS Records, Profiles, Accounts, Unlinked, RoleOf, PageSize,
          Now, Today, BookingStarts, BookingDates, DueSoonHours,
          WalkedTabs, MaxWrites     \* bounds

ASSUME ListsAssumption ==
    /\ Records \subseteq Nat /\ IsFiniteSet(Records)   \* a record is its unique number
    /\ Unlinked \notin Profiles \cup Accounts
    /\ RoleOf \in [Accounts -> {"ADMIN", "ENGINEER", "EDITOR", "VIEWER"}]
    /\ PageSize \in Nat \ {0} /\ MaxWrites \in Nat
    /\ BookingStarts \cup BookingDates \cup Today \subseteq Nat /\ {Now, DueSoonHours} \subseteq Nat

VARIABLES
    kind,      \* the list that is looked at
    rows,      \* rows[r]: the record, or Missing
    link,      \* link[a]: the active profile linked to account a, if any
    reader,    \* the walk through the list
    writes     \* (history) writes so far

listVars == <<kind, rows, link, reader, writes>>

Missing == [state |-> "missing", marks |-> {}, owner |-> Unlinked, start |-> 0, date |-> 0]

Kinds == {"bookings", "kits", "assets", "issues", "editors", "users", "categories",
          "software", "audit"}

\* The columns a tab asks for, one kind at a time.
States(k) ==
    CASE k = "bookings" -> {"DRAFT", "CHECKED_OUT", "RETURN_INSPECTION", "CANCELLED"}
      [] k = "kits"     -> {"AVAILABLE", "RESERVED", "CHECKED_OUT", "MAINTENANCE", "DAMAGED", "RETIRED"}
      [] k = "assets"   -> {"AVAILABLE", "RESERVED", "CHECKED_OUT", "MAINTENANCE", "DAMAGED",
                            "MISSING", "RETIRED"}
      [] k = "issues"   -> {"OPEN", "UNDER_INVESTIGATION", "RESOLVED", "CLOSED"}
      [] k = "users"    -> {"ACTIVE", "SUSPENDED", "DISABLED"}
      [] OTHER          -> {"listed"}

Marks(k) == CASE k = "issues"  -> {"critical"}
              [] k = "users"   -> {"locked", "never-signed-in"}
              [] k = "editors" -> {"external", "active"}
              [] OTHER         -> {}

\* Whose a record is: a booking's editor, an issue's assignee.
Owners(k) == CASE k = "bookings" -> Profiles \cup {Unlinked}
               [] k = "issues"   -> {a \in Accounts : RoleOf[a] \in {"ADMIN", "ENGINEER"}} \cup {Unlinked}
               [] OTHER          -> {Unlinked}

\* A date to sort by; for bookings the expected return, after the start.
Starts(k) == IF k = "bookings" THEN BookingStarts ELSE {0}
Dates(k)  == IF k = "bookings" THEN BookingDates ELSE {0, 1}

Rows(k) ==
    {row \in [state : States(k), marks : SUBSET Marks(k), owner : Owners(k),
               start : Starts(k), date : Dates(k)] : k = "bookings" => row.start < row.date}
    \cup {Missing}

NoWalk == [phase |-> "idle", account |-> Unlinked, tab |-> "all", sort |-> "number",
         profile |-> Unlinked, total |-> 0, page |-> 1, shown |-> <<>>, steady |-> TRUE]

ListsTypeOK ==
    /\ kind \in Kinds
    /\ rows \in [Records -> Rows(kind)]
    /\ link \in [Accounts -> Profiles \cup {Unlinked}]
    /\ reader.phase \in {"idle", "asked", "resolved", "counted", "done"}
    /\ reader.shown \in Seq(Records)

\* EditorProfile.userId is unique.
OneAccountEach(f) == \A a, b \in Accounts : a # b => f[a] = Unlinked \/ f[a] # f[b]

\* A walk may begin in any state of the rows, so that only what is written
\* during one has to be a step.
ListsInit ==
    /\ kind \in Kinds
    /\ rows \in [Records -> Rows(kind)]
    /\ link \in {f \in [Accounts -> Profiles \cup {Unlinked}] : OneAccountEach(f)}
    /\ kind = "bookings" \/ \A a \in Accounts : link[a] = Unlinked
    /\ reader = NoWalk
    /\ writes = 0

Present == {r \in Records : rows[r] # Missing}

-----------------------------------------------------------------------------
(* Who may see a booking: the same rule, written down at five doors.  An      *)
(* actor is an account and the profile the session found linked to it.        *)

\* The permission matrix: booking.read, and booking.readOwn.
ReadsAll(a) == RoleOf[a] \in {"ADMIN", "ENGINEER", "VIEWER"}
ReadsOwn(a) == RoleOf[a] \in {"ADMIN", "EDITOR"}

\* visibilityFor: no profile matches no booking.
VisibilityFor(a, p, r) ==
    IF ReadsAll(a) THEN TRUE ELSE ReadsOwn(a) /\ p # Unlinked /\ rows[r].owner = p

\* (Fault) no profile is compared with no editor.
CanReadBookingFilesUnlinked(a, p, r) == ReadsAll(a) \/ (ReadsOwn(a) /\ p = rows[r].owner)

\* canReadBookingFiles: signatures and photos.
CanReadBookingFiles(a, p, r) ==
    ReadsAll(a) \/ (ReadsOwn(a) /\ p # Unlinked /\ p = rows[r].owner)

\* mayRead: the signed documents.
MayReadDocument(a, p, r) ==
    ReadsAll(a) \/ (ReadsOwn(a) /\ p # Unlinked /\ p = rows[r].owner)

\* scopeFor: the reports.
InReportScope(a, p, r) ==
    ReadsAll(a) \/ (ReadsOwn(a) /\ p # Unlinked /\ rows[r].owner = p)

\* buildDashboard: the desk's lists, or "my bookings".
OnDashboard(a, p, r) == (ReadsAll(a) \/ ReadsOwn(a)) /\ VisibilityFor(a, p, r)

-----------------------------------------------------------------------------
(* Tabs *)

OpenIssue(row) == row.state \in {"OPEN", "UNDER_INVESTIGATION"}

Tabs(k) ==
    CASE k = "bookings"   -> {"all", "today", "draft", "checked-out", "due-soon", "overdue",
                              "return-inspection", "cancelled"}
      [] k = "kits"       -> {"all", "available", "reserved", "checked-out", "maintenance", "retired"}
      [] k = "assets"     -> {"all", "available", "checked-out", "maintenance",
                              "missing-damaged", "retired"}
      [] k = "issues"     -> {"all", "open", "investigating", "resolved", "closed", "critical", "mine"}
      [] k = "editors"    -> {"all", "internal", "external", "active", "inactive"}
      [] k = "users"      -> {"all", "active", "suspended", "locked", "never-signed-in"}
      [] OTHER            -> {"all"}

\* filterWhere, overdueWhere.
BookingInTab(tab, row) ==
    CASE tab = "today"             -> row.state # "CANCELLED" /\ {row.start, row.date} \cap Today # {}
      [] tab = "draft"             -> row.state = "DRAFT"
      [] tab = "checked-out"       -> row.state \in OutStatuses
      [] tab = "due-soon"          -> /\ row.state \in OutStatuses
                                      /\ row.date >= Now /\ row.date < Now + DueSoonHours * Hour
      [] tab = "overdue"           -> \/ row.state = "OVERDUE"
                                      \/ row.state = "CHECKED_OUT" /\ row.date < Now
      [] tab = "return-inspection" -> row.state = "RETURN_INSPECTION"
      [] tab = "cancelled"         -> row.state = "CANCELLED"
      [] OTHER                     -> TRUE

\* KIT_VIEW_STATUSES, ASSET_VIEW_STATUSES: the stored statuses of a tab.
KitViewStatuses(tab) ==
    CASE tab = "available"   -> {"AVAILABLE"}
      [] tab = "reserved"    -> {"RESERVED"}
      [] tab = "checked-out" -> {"CHECKED_OUT"}
      [] tab = "maintenance" -> {"MAINTENANCE", "DAMAGED"}
      [] tab = "retired"     -> {"RETIRED"}
      [] OTHER               -> States("kits")

AssetViewStatuses(tab) ==
    CASE tab = "available"       -> {"AVAILABLE"}
      [] tab = "checked-out"     -> {"CHECKED_OUT", "RESERVED"}
      [] tab = "maintenance"     -> {"MAINTENANCE"}
      [] tab = "missing-damaged" -> {"MISSING", "DAMAGED"}
      [] tab = "retired"         -> {"RETIRED"}
      [] OTHER                   -> States("assets")

IssueInTab(tab, row, a) ==
    CASE tab = "open"          -> OpenIssue(row)
      [] tab = "investigating" -> row.state = "UNDER_INVESTIGATION"
      [] tab = "resolved"      -> row.state = "RESOLVED"
      [] tab = "closed"        -> row.state = "CLOSED"
      [] tab = "critical"      -> OpenIssue(row) /\ "critical" \in row.marks
      [] tab = "mine"          -> OpenIssue(row) /\ row.owner = a
      [] OTHER                 -> TRUE

EditorInTab(tab, row) ==
    CASE tab = "internal" -> "external" \notin row.marks
      [] tab = "external" -> "external" \in row.marks
      [] tab = "active"   -> "active" \in row.marks
      [] tab = "inactive" -> "active" \notin row.marks
      [] OTHER            -> TRUE

UserInTab(tab, row) ==
    CASE tab = "active"          -> row.state = "ACTIVE"
      [] tab = "suspended"       -> row.state \in {"SUSPENDED", "DISABLED"}
      [] tab \in Marks("users")   -> tab \in row.marks
      [] OTHER                   -> TRUE

\* The rows of a list, for an account with that profile.
Listed(tab, a, p) ==
    {r \in Present :
        CASE kind = "bookings" -> VisibilityFor(a, p, r) /\ BookingInTab(tab, rows[r])
          [] kind = "kits"     -> rows[r].state \in KitViewStatuses(tab)
          [] kind = "assets"   -> rows[r].state \in AssetViewStatuses(tab)
          [] kind = "issues"   -> IssueInTab(tab, rows[r], a)
          [] kind = "editors"  -> EditorInTab(tab, rows[r])
          [] kind = "users"    -> UserInTab(tab, rows[r])
          [] OTHER             -> TRUE}

-----------------------------------------------------------------------------
(* The numbers on the tabs, from grouped counts of their own *)

Having(S, states) == Cardinality({r \in S : rows[r].state \in states})

CountBookingsByFilter(tab, a, p) ==
    LET scope == {r \in Present : VisibilityFor(a, p, r)}
    IN  CASE tab = "all"               -> Having(scope, States("bookings"))
          [] tab = "draft"             -> Having(scope, {"DRAFT"})
          [] tab = "checked-out"       -> Having(scope, {"CHECKED_OUT"}) + Having(scope, {"OVERDUE"})
          [] tab = "return-inspection" -> Having(scope, {"RETURN_INSPECTION"})
          [] tab = "cancelled"         -> Having(scope, {"CANCELLED"})
          [] OTHER                     -> Cardinality({r \in scope : BookingInTab(tab, rows[r])})

\* The kit and equipment pages add up one count for each status of the tab.
CountByStatus(statuses) == MapThenSumSet(LAMBDA s : Having(Present, {s}), statuses)

CountIssuesByFilter(tab, a) ==
    LET Group(s) == Having(Present, {s})
    IN  CASE tab = "open"          -> Group("OPEN") + Group("UNDER_INVESTIGATION")
          [] tab = "investigating" -> Group("UNDER_INVESTIGATION")
          [] tab = "resolved"      -> Group("RESOLVED")
          [] tab = "closed"        -> Group("CLOSED")
          [] OTHER                 -> Cardinality({r \in Present : IssueInTab(tab, rows[r], a)})

CountEditorsByView(tab) ==
    LET Group(marks) == Cardinality({r \in Present : rows[r].marks = marks})
    IN  CASE tab = "internal" -> Group({"active"}) + Group({})
          [] tab = "external" -> Group({"external", "active"}) + Group({"external"})
          [] tab = "active"   -> Group({"external", "active"}) + Group({"active"})
          [] tab = "inactive" -> Group({"external"}) + Group({})
          [] OTHER            -> Cardinality(Present)

CountUsersByFilter(tab) == Cardinality({r \in Present : UserInTab(tab, rows[r])})

TabNumber(tab, a, p) ==
    CASE kind = "bookings" -> CountBookingsByFilter(tab, a, p)
      [] kind = "kits"     -> CountByStatus(KitViewStatuses(tab))
      [] kind = "assets"   -> CountByStatus(AssetViewStatuses(tab))
      [] kind = "issues"   -> CountIssuesByFilter(tab, a)
      [] kind = "editors"  -> CountEditorsByView(tab)
      [] kind = "users"    -> CountUsersByFilter(tab)
      [] OTHER             -> Cardinality(Present)

-----------------------------------------------------------------------------
(* Order and pages *)

\* (Fault) a list of bookings is sorted by the chosen date alone.
SortKeysByDate(k, sort) == IF sort = "number" THEN <<"number">> ELSE <<"date">>

\* What a list is ordered by.  Bookings, kits, equipment and categories end
\* with a unique number, code or name; profiles, accounts, issues, software and
\* the audit log with columns that several rows may share.
SortKeys(k, sort) ==
    IF sort = "number" /\ k \notin {"software", "audit"} THEN <<"number">>
    ELSE IF k \in {"bookings", "kits", "assets", "categories"} THEN <<"date", "number">>
    ELSE <<"date">>

Key(r, key) == IF key = "number" THEN r ELSE rows[r].date

\* The database may return rows with equal keys in any order, a new one for
\* every query.
Sorted(seq, keys) ==
    \A i, j \in DOMAIN seq : i < j =>
        \E n \in DOMAIN keys :
            /\ \A m \in 1 .. (n - 1) : Key(seq[i], keys[m]) = Key(seq[j], keys[m])
            /\ \/ Key(seq[i], keys[n]) < Key(seq[j], keys[n])
               \/ n = Len(keys) /\ Key(seq[i], keys[n]) = Key(seq[j], keys[n])

Orders(S, keys) == {seq \in SetToSeqs(S) : Sorted(seq, keys)}

\* pageCountFor, clampPage.
PageCountFor(total) == LET full == (total + PageSize - 1) \div PageSize IN IF full < 1 THEN 1 ELSE full
ClampPage(page, total) == IF page > PageCountFor(total) THEN PageCountFor(total) ELSE page

\* skip and take.
PageOf(seq, page) ==
    LET last == page * PageSize
    IN  SubSeq(seq, last - PageSize + 1, IF last > Len(seq) THEN Len(seq) ELSE last)

-----------------------------------------------------------------------------
(* A walk through a list *)

Open(a, tab, sort) ==
    /\ reader.phase = "idle"
    /\ reader' = [NoWalk EXCEPT !.phase = "asked", !.account = a, !.tab = tab, !.sort = sort]
    /\ UNCHANGED <<kind, rows, link, writes>>

\* requirePermission: the session's account and its profile, from the database.
ResolveActor ==
    /\ reader.phase = "asked"
    /\ reader' = [reader EXCEPT !.phase = "resolved", !.profile = link[reader.account]]
    /\ UNCHANGED <<kind, rows, link, writes>>

CountRows ==
    /\ reader.phase = "resolved"
    /\ LET total == Cardinality(Listed(reader.tab, reader.account, reader.profile))
       IN  reader' = [reader EXCEPT !.phase = "counted", !.total = total,
                                    !.page = ClampPage(reader.page, total)]
    /\ UNCHANGED <<kind, rows, link, writes>>

\* The last page ends the walk; from another the next one is asked for.
ReadPage ==
    /\ reader.phase = "counted"
    /\ \E seq \in Orders(Listed(reader.tab, reader.account, reader.profile),
                         SortKeys(kind, reader.sort)) :
           reader' = [reader EXCEPT
               !.shown = @ \o PageOf(seq, reader.page),
               !.phase = IF reader.page >= PageCountFor(reader.total) THEN "done" ELSE "asked",
               !.page = IF reader.page >= PageCountFor(reader.total) THEN @ ELSE @ + 1]
    /\ UNCHANGED <<kind, rows, link, writes>>

\* Somebody else's operation commits: a row comes, goes or changes, or a
\* profile is linked to another account.
Disturbed ==
    /\ reader.phase \in {"asked", "resolved", "counted"} /\ writes < MaxWrites
    /\ reader' = [reader EXCEPT !.steady = FALSE]
    /\ writes' = writes + 1

Write(r, row) ==
    /\ row # rows[r] /\ Disturbed
    /\ rows' = [rows EXCEPT ![r] = row]
    /\ UNCHANGED <<kind, link>>

Relink(a, p) ==
    /\ kind = "bookings" /\ p # link[a] /\ Disturbed
    /\ link' = [link EXCEPT ![a] = p] /\ OneAccountEach(link')
    /\ UNCHANGED <<kind, rows>>

ListsNext ==
    \/ \E a \in Accounts, tab \in Tabs(kind) \cap WalkedTabs, sort \in {"number", "date"} : Open(a, tab, sort)
    \/ ResolveActor \/ CountRows \/ ReadPage
    \/ \E r \in Records, row \in Rows(kind) : Write(r, row)
    \/ \E a \in Accounts, p \in Profiles \cup {Unlinked} : Relink(a, p)

ListsSpec == ListsInit /\ [][ListsNext]_listVars

-----------------------------------------------------------------------------
(* Properties *)

\* Whose bookings an account should be shown: everybody's, or those of the
\* profile that is linked to it.
Theirs(a, r) == kind # "bookings" \/ ReadsAll(a) \/ (rows[r].owner # Unlinked /\ rows[r].owner = link[a])

\* The pages of a list, walked while nobody writes, show every row the person
\* may see and the tab asks for exactly once, whatever it is sorted by: so the
\* four lists whose last sort key is unique promise (listBookingsPage, listKits,
\* listAssets, listCategoriesPage).  The other lists do not keep it.
PagesCoverTheList ==
    (reader.phase = "done" /\ reader.steady /\ kind \in {"bookings", "kits", "assets", "categories"}) =>
        /\ ToSet(reader.shown) = {r \in Listed(reader.tab, reader.account, link[reader.account]) :
                                    Theirs(reader.account, r)}
        /\ Len(reader.shown) = Cardinality(ToSet(reader.shown))

\* The number on a tab is the number of rows the tab lists for that person,
\* although one comes from grouped counts and the other from a where-clause;
\* and the overdue and due-soon tabs list exactly the bookings the badges of
\* booking-rules.ts mark so (countBookingsByFilter, filterWhere, bookingTimeState).
TabsTellTheList ==
    \A a \in Accounts : LET p == link[a] IN
        /\ \A tab \in Tabs(kind) : TabNumber(tab, a, p) = Cardinality(Listed(tab, a, p))
        /\ kind = "bookings" =>
              \A r \in Listed("all", a, p) :
                  /\ r \in Listed("overdue", a, p) <=> IsBookingOverdue(rows[r].state, rows[r].date, Now)
                  /\ r \in Listed("due-soon", a, p)
                        <=> IsDueSoon(rows[r].state, rows[r].date, Now, DueSoonHours)

\* A booking is behind all five doors or behind none: the lists, the dashboard,
\* the files, the documents and the reports give the same people the same
\* bookings, a person without a profile none of them (visibilityFor,
\* canReadBookingFiles, mayRead, scopeFor).
DoorsAgree ==
    kind = "bookings" =>
        \A a \in Accounts, r \in Present : LET p == link[a] IN
            /\ VisibilityFor(a, p, r) <=> Theirs(a, r)
            /\ CanReadBookingFiles(a, p, r) <=> Theirs(a, r)
            /\ MayReadDocument(a, p, r) <=> Theirs(a, r)
            /\ InReportScope(a, p, r) <=> Theirs(a, r)
            /\ OnDashboard(a, p, r) <=> Theirs(a, r)
=============================================================================
