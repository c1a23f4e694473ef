------------------------------ MODULE Summaries ------------------------------
(***************************************************************************)
(* The dashboard's figures and panels and the rows of the reports, over    *)
(* the tables and readers of Lists: buildDashboard with its DAL, the       *)
(* report registry and the where-clauses of the report definitions.  What  *)
(* is derived from a booking's times is in Overviews.                      *)
(***************************************************************************)
EXTENDS Lists

CONSTANT PanelLimit  \* rows of a dashboard panel (DASHBOARD_LIMITS)

ASSUME SummariesAssumption == PanelLimit \in Nat \ {0}

\* ROLE_PERMISSIONS, as far as the dashboard and the reports ask.
Granted ==
    LET looking == {"booking.read", "kit.read", "asset.read", "report.read"}
        working == looking \cup {"booking.create", "editor.read", "issue.read", "issue.create",
                                 "maintenance.read"}
    IN  [ADMIN    |-> working \cup {"booking.readOwn", "admin.audit.read"},
         ENGINEER |-> working,
         EDITOR   |-> {"booking.readOwn"},
         VIEWER   |-> looking]

May(a, permission) == permission \in Granted[RoleOf[a]]

-----------------------------------------------------------------------------
(* The dashboard *)

\* countKitsByStatus; its condition on Kit.isActive narrows nothing, because no
\* operation clears that column.
CountKits(states) == Having(Present, states)

\* The figures of the "operations status" strip; the total leaves out RETIRED.
KitFigure(figure) ==
    CASE figure = "available"   -> CountKits({"AVAILABLE"})
      [] figure = "reserved"    -> CountKits({"RESERVED"})
      [] figure = "checkedOut"  -> CountKits({"CHECKED_OUT"})
      [] figure = "maintenance" -> CountKits({"MAINTENANCE"})
      [] figure = "damaged"     -> CountKits({"DAMAGED"})
      [] figure = "total"       -> MapThenSumSet(LAMBDA s : CountKits({s}),
                                     {"AVAILABLE", "RESERVED", "CHECKED_OUT", "MAINTENANCE", "DAMAGED"})

CountAssetsInMaintenance == Having(Present, {"MAINTENANCE"})
CountOpenIssues          == Cardinality({r \in Present : OpenIssue(rows[r])})

\* (Fault) the overdue figure counts every booking that is out.
CountOutBookings(a, p) ==
    Cardinality({r \in Present : VisibilityFor(a, p, r) /\ rows[r].state \in OutStatuses})

CountOverdueBookings(a, p) ==
    Cardinality({r \in Present : VisibilityFor(a, p, r) /\ BookingInTab("overdue", rows[r])})

\* Which records a panel chooses from: the store's panels for those who read
\* every booking, one's own bookings for those who read only these.
PanelRows(panel, a, p) ==
    {r \in Present :
        CASE panel \in {"overdue", "today"} -> May(a, "booking.read") /\ VisibilityFor(a, p, r)
                                               /\ BookingInTab(panel, rows[r])
          [] panel = "history" -> ~May(a, "booking.read") /\ May(a, "booking.readOwn")
                                  /\ VisibilityFor(a, p, r)
          [] panel = "issues"  -> May(a, "issue.read") /\ OpenIssue(rows[r])}

\* Soonest due; today's by their start; newest first.
Precedes(panel, q, r) ==
    CASE panel = "overdue" -> rows[q].date < rows[r].date
      [] panel = "today"   -> \/ rows[q].start < rows[r].start
                              \/ rows[q].start = rows[r].start /\ rows[q].date < rows[r].date
      [] panel = "history" -> rows[q].start > rows[r].start
      [] panel = "issues"  -> rows[q].date > rows[r].date

\* A panel shows the first rows of its order.
Shows(panel, S, shown) ==
    /\ shown \subseteq S
    /\ Cardinality(shown) = IF Cardinality(S) < PanelLimit THEN Cardinality(S) ELSE PanelLimit
    /\ \A r \in shown, q \in S \ shown : ~Precedes(panel, q, r)

QuickActionsFor(a) ==
    IF May(a, "booking.create") \/ May(a, "issue.create")
      THEN {k \in {"bookings", "kits", "assets", "issues"} :
              May(a, CASE k = "bookings" -> "booking.read" [] k = "kits" -> "kit.read"
                       [] k = "assets" -> "asset.read" [] k = "issues" -> "issue.read")}
      ELSE {}

-----------------------------------------------------------------------------
(* The reports *)

\* alsoNeeds
Reports ==
    [checkedOut      |-> {"booking.read"},
     overdue         |-> {"booking.read"},
     bookingHistory  |-> {"booking.read"},
     kitUtilisation  |-> {"kit.read", "booking.read"},
     editorHistory   |-> {"editor.read", "booking.read"},
     missingDamaged  |-> {"asset.read"},
     equipmentStatus |-> {"asset.read"},
     issues          |-> {"issue.read"}]

MayRunReport(a, report) == May(a, "report.read") /\ \A need \in Reports[report] : May(a, need)

ReportOf(report) ==
    CASE report \in {"checkedOut", "overdue", "bookingHistory"} -> "bookings"
      [] report = "kitUtilisation"                              -> "kits"
      [] report = "editorHistory"                               -> "editors"
      [] report \in {"missingDamaged", "equipmentStatus"}       -> "assets"
      [] report = "issues"                                      -> "issues"

AnyStatus == "any"

\* The where-clause of a report, with a status filter where it offers one.
\* missingDamaged ignores a status that is neither of its two.
ReportRows(report, wanted, a, p) ==
    LET filtered(r) == wanted = AnyStatus \/ rows[r].state = wanted
    IN  {r \in Present :
           CASE report = "checkedOut"     -> InReportScope(a, p, r) /\ rows[r].state \in OutStatuses
             [] report = "overdue"        -> InReportScope(a, p, r) /\ BookingInTab("overdue", rows[r])
             [] report = "bookingHistory" -> InReportScope(a, p, r) /\ filtered(r)
             [] report = "missingDamaged" ->
                  rows[r].state \in IF wanted \in {"MISSING", "DAMAGED"} THEN {wanted}
                                    ELSE {"MISSING", "DAMAGED"}
             [] report \in {"equipmentStatus", "issues"} -> filtered(r)
             [] OTHER                     -> TRUE}

\* paginate: the page asked for, brought into the range of the pages there are.
Paginate(asked, total) ==
    LET count == PageCountFor(total)
        page  == IF asked < 1 THEN 1 ELSE IF asked > count THEN count ELSE asked
    IN  [skip |-> (page - 1) * PageSize, pages |-> count, page |-> page]

-----------------------------------------------------------------------------
(* Properties *)

\* Every figure of the dashboard is the number on the tab it stands for.
FiguresTellTheTabs ==
    \A a \in Accounts : LET p == link[a] IN
        /\ kind = "kits" =>
             /\ KitFigure("available") = TabNumber("available", a, p)
             /\ KitFigure("reserved") = TabNumber("reserved", a, p)
             /\ KitFigure("checkedOut") = TabNumber("checked-out", a, p)
             /\ KitFigure("maintenance") + KitFigure("damaged") = TabNumber("maintenance", a, p)
             /\ KitFigure("total") = TabNumber("all", a, p) - TabNumber("retired", a, p)
        /\ kind = "assets" => CountAssetsInMaintenance = TabNumber("maintenance", a, p)
        /\ kind = "issues" => CountOpenIssues = TabNumber("open", a, p)
        /\ kind = "bookings" => CountOverdueBookings(a, p) = TabNumber("overdue", a, p)

\* A panel chooses from what its "view all" lists for the same person, is empty
\* only when that is, and leaves out nothing more urgent than what it shows.
PanelsShowTheList ==
    \A a \in Accounts : LET p == link[a] IN
        \A panel \in (IF kind = "bookings" THEN {"overdue", "today", "history"}
                      ELSE IF kind = "issues" THEN {"issues"} ELSE {}) :
            LET S == PanelRows(panel, a, p)
                all == CASE panel = "history" -> "all" [] panel = "issues" -> "open"
                         [] OTHER -> panel
            IN  /\ S \subseteq Listed(all, a, p)
                /\ \A shown \in SUBSET S :
                     Shows(panel, S, shown) => (shown = {} <=> S = {})
                /\ kind = "issues" /\ "issues" \in QuickActionsFor(a) => S = Listed("open", a, p)

\* A report lists, for whoever may run it, what the tabs of the list page count
\* for the same person; its last page is not empty; and nobody runs a report
\* about bookings without reading every booking.
ReportsTellTheTabs ==
    \A a \in Accounts : LET p == link[a] IN
        \A report \in {n \in DOMAIN Reports : ReportOf(n) = kind /\ MayRunReport(a, n)} :
            LET total(wanted) == Cardinality(ReportRows(report, wanted, a, p))
            IN  /\ kind = "bookings" => ReadsAll(a)
                /\ report \in {"bookingHistory", "kitUtilisation", "editorHistory",
                               "equipmentStatus", "issues"}
                     => total(AnyStatus) = TabNumber("all", a, p)
                /\ report = "checkedOut" => total(AnyStatus) = TabNumber("checked-out", a, p)
                /\ report = "overdue" => total(AnyStatus) = TabNumber("overdue", a, p)
                /\ report = "missingDamaged" =>
                     total(AnyStatus) = TabNumber("missing-damaged", a, p)
                /\ report = "issues" =>
                     /\ total("UNDER_INVESTIGATION") = TabNumber("investigating", a, p)
                     /\ total("OPEN") + total("UNDER_INVESTIGATION") = TabNumber("open", a, p)
                /\ \A asked \in 0 .. (total(AnyStatus) + 2) :
                     LET at == Paginate(asked, total(AnyStatus)) IN
                     /\ at.page \in 1 .. at.pages
                     /\ total(AnyStatus) > 0 => at.skip < total(AnyStatus)

(***************************************************************************)
(* The tabs, the dashboard and the reports count the same things, although *)
(* one adds up grouped counts, one counts with a where-clause of its own   *)
(* and one filters by the reader's scope (countBookingsByFilter,           *)
(* countKitsByStatus, countOverdueBookings, the report definitions).       *)
(***************************************************************************)
NumbersAgree ==
    TabsTellTheList /\ FiguresTellTheTabs /\ PanelsShowTheList /\ ReportsTellTheTabs
=============================================================================
