-------------------------------- MODULE Issues --------------------------------
(***************************************************************************)
(* Issues: from the report to the written end of it.  A call reads the     *)
(* issue's status, checks the transition and writes by primary key at READ *)
(* COMMITTED.  What an issue is about and what its texts say is left out;  *)
(* that a reason is given is not.                                          *)
(***************************************************************************)
EXTENDS Integers, FiniteSets

CONSTANTS Reported, Engineers, IssueCalls, Unassigned,
          MaxCrossedIssues        \* bound

ASSUME IssuesAssumption == Unassigned \notin Engineers /\ MaxCrossedIssues \in Nat

IssueStatuses == {"OPEN", "UNDER_INVESTIGATION", "RESOLVED", "CLOSED"}

VARIABLES
    issue,            \* issue[i]: the row; status "NONE" before it is reported
    active,           \* engineers whose account is ACTIVE
    task,             \* task[c]: the call under way
    crossedIssues     \* (history) issues written by a call that read them
                      \* before another was committed

issueVars == <<issue, active, task, crossedIssues>>

NoIssue == [status |-> "NONE", explained |-> FALSE, resolvedAt |-> FALSE, closedAt |-> FALSE,
            assignee |-> Unassigned]

NoTask  == [op |-> "none", issue |-> Unassigned, was |-> "NONE", assignee |-> Unassigned,
            reason |-> FALSE, missed |-> FALSE]

TaskOps == {"updateIssue", "assignIssue", "startInvestigation", "resolveIssue", "closeIssue",
            "reopenIssue"}

IssuesTypeOK ==
    /\ issue \in [Reported -> [status : IssueStatuses \cup {"NONE"}, explained : BOOLEAN,
                    resolvedAt : BOOLEAN, closedAt : BOOLEAN, assignee : Engineers \cup {Unassigned}]]
    /\ active \subseteq Engineers
    /\ \A c \in IssueCalls : task[c].op \in TaskOps \cup {"none"}
    /\ crossedIssues \subseteq Reported

IssuesInit ==
    /\ issue = [i \in Reported |-> NoIssue]
    /\ active = Engineers
    /\ task = [c \in IssueCalls |-> NoTask]
    /\ crossedIssues = {}

-----------------------------------------------------------------------------
\* ISSUE_TRANSITIONS.
IssueTransitions ==
    [s \in IssueStatuses |->
        CASE s = "OPEN"                -> {"UNDER_INVESTIGATION", "RESOLVED", "CLOSED"}
          [] s = "UNDER_INVESTIGATION" -> {"OPEN", "RESOLVED", "CLOSED"}
          [] s = "RESOLVED"            -> {"CLOSED", "OPEN"}
          [] s = "CLOSED"              -> {"OPEN"}]

MayBecome(i, status) == issue[i].status # "NONE" /\ status \in IssueTransitions[issue[i].status]

\* isIssueEditable.
IsEditable(i) == issue[i].status \in {"OPEN", "UNDER_INVESTIGATION"}

\* createIssue, by hand or from a return.
CreateIssue(i, who) ==
    /\ issue[i].status = "NONE"
    /\ who \in active \cup {Unassigned}
    /\ issue' = [issue EXCEPT ![i] = [NoIssue EXCEPT !.status = "OPEN", !.assignee = who]]
    /\ UNCHANGED <<active, task, crossedIssues>>

ReadIssue(c, i, record) ==
    /\ task[c] = NoTask
    /\ task' = [task EXCEPT ![c] = [record EXCEPT !.issue = i, !.was = issue[i].status]]
    /\ UNCHANGED <<issue, active, crossedIssues>>

ReadForUpdateIssue(c, i) ==
    IsEditable(i) /\ ReadIssue(c, i, [NoTask EXCEPT !.op = "updateIssue"])

ReadForAssignIssue(c, i, who) ==
    /\ IsEditable(i)
    /\ who \in active \cup {Unassigned} /\ who # issue[i].assignee
    /\ ReadIssue(c, i, [NoTask EXCEPT !.op = "assignIssue", !.assignee = who])

\* An issue without an owner becomes the actor's.
ReadForInvestigation(c, i, actor) ==
    /\ MayBecome(i, "UNDER_INVESTIGATION")
    /\ actor \in active
    /\ ReadIssue(c, i, [NoTask EXCEPT !.op = "startInvestigation",
                          !.assignee = IF issue[i].assignee = Unassigned THEN actor
                                       ELSE issue[i].assignee])

ReadForResolveIssue(c, i) ==
    MayBecome(i, "RESOLVED") /\ ReadIssue(c, i, [NoTask EXCEPT !.op = "resolveIssue", !.reason = TRUE])

\* (Fault) any resolution on record will do, one that was reopened included.
ClosingReasonOnRecord(i, given) == given \/ issue[i].status \in {"RESOLVED", "OPEN"}

\* The reason given, or the resolution of an issue that is resolved.
ClosingReason(i, given) == given \/ (issue[i].status = "RESOLVED" /\ issue[i].explained)

ReadForCloseIssue(c, i, given) ==
    /\ MayBecome(i, "CLOSED")
    /\ ClosingReason(i, given)
    /\ ReadIssue(c, i, [NoTask EXCEPT !.op = "closeIssue",
                          !.reason = given \/ issue[i].explained])

ReadForReopenIssue(c, i) ==
    MayBecome(i, "OPEN") /\ ReadIssue(c, i, [NoTask EXCEPT !.op = "reopenIssue"])

\* What the write makes of the row there is by then: a close of an issue that
\* was resolved when it was read leaves the time of the resolution alone, and a
\* reopened issue keeps its resolution.
Worked(k, row) ==
    CASE k.op = "assignIssue"        -> [row EXCEPT !.assignee = k.assignee]
      [] k.op = "startInvestigation" -> [row EXCEPT !.status = "UNDER_INVESTIGATION",
                                                    !.assignee = k.assignee]
      [] k.op = "resolveIssue"       -> [row EXCEPT !.status = "RESOLVED", !.explained = TRUE,
                                                    !.resolvedAt = TRUE, !.closedAt = FALSE]
      [] k.op = "closeIssue"         -> [row EXCEPT !.status = "CLOSED", !.explained = k.reason,
                                                    !.resolvedAt = @ \/ k.was # "RESOLVED",
                                                    !.closedAt = TRUE]
      [] k.op = "reopenIssue"        -> [row EXCEPT !.status = "OPEN", !.resolvedAt = FALSE,
                                                    !.closedAt = FALSE]
      [] OTHER                       -> row

WriteIssue(c) ==
    LET k == task[c] IN
    /\ k.op # "none"
    /\ issue' = [issue EXCEPT ![k.issue] = Worked(k, @)]
    /\ task' = [d \in IssueCalls |->
                  IF d = c THEN NoTask
                  ELSE IF task[d].issue = k.issue THEN [task[d] EXCEPT !.missed = TRUE]
                  ELSE task[d]]
    /\ crossedIssues' = IF k.missed THEN crossedIssues \cup {k.issue} ELSE crossedIssues
    /\ UNCHANGED active

SwitchEngineer(u) ==
    /\ active' = IF u \in active THEN active \ {u} ELSE active \cup {u}
    /\ UNCHANGED <<issue, task, crossedIssues>>

IssuesStep ==
    \/ \E i \in Reported :
         \/ \E who \in Engineers \cup {Unassigned} : CreateIssue(i, who)
         \/ \E c \in IssueCalls :
              \/ ReadForUpdateIssue(c, i) \/ ReadForResolveIssue(c, i) \/ ReadForReopenIssue(c, i)
              \/ \E who \in Engineers \cup {Unassigned} : ReadForAssignIssue(c, i, who)
              \/ \E actor \in Engineers : ReadForInvestigation(c, i, actor)
              \/ \E given \in BOOLEAN : ReadForCloseIssue(c, i, given)
    \/ \E c \in IssueCalls : WriteIssue(c)
    \/ \E u \in Engineers : SwitchEngineer(u)

IssuesNext == Cardinality(crossedIssues) <= MaxCrossedIssues /\ IssuesStep

IssuesSpec == IssuesInit /\ [][IssuesNext]_issueVars

-----------------------------------------------------------------------------
(* Properties *)

\* However calls race, no issue is finished without a written reason (closeIssue,
\* resolveIssue; a reopened issue keeps its own).  Unless calls crossed, its
\* times say where it stands, and one that is being looked into was not finished.
FinishedIsExplained ==
    \A i \in Reported :
        /\ issue[i].status \in {"RESOLVED", "CLOSED"} => issue[i].explained
        /\ i \notin crossedIssues =>
             /\ issue[i].resolvedAt <=> issue[i].status \in {"RESOLVED", "CLOSED"}
             /\ issue[i].closedAt <=> issue[i].status = "CLOSED"
=============================================================================
