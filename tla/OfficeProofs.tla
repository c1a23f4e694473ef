---------------------------- MODULE OfficeProofs ----------------------------
(***************************************************************************)
(* Proofs about the office's small protocols, each for every set of calls  *)
(* and rows: reference numbers, issues, the editor directory, photos,      *)
(* checklist templates, the sign-in limiter, and the trails read from what *)
(* all of these leave behind.  What the limiter's filter does to a         *)
(* sequence of any length is proved by induction, from the least           *)
(* counterexample.                                                         *)
(***************************************************************************)
EXTENDS Numbering, Issues, EditorDirectory, PhotoEvidence, ChecklistTemplates,
        LoginLimiter, Histories, FiniteSetTheorems, FunctionTheorems, SequenceTheorems,
        WellFoundedInduction, TLAPS

-----------------------------------------------------------------------------
(* Numbering *)

Counters == Scopes \X Periods

\* A transaction that has taken a number holds the counter's row, and starts
\* from the value committed there.
NumberingInv ==
    /\ NumberingTypeOK
    /\ NoGapsInNumbers
    /\ \A t \in Takers : HasTaken(t) =>
         /\ taking[t].scope \in Scopes
         /\ taking[t].from = counter[Counter(t)]
    /\ \A t, o \in Takers : t # o /\ HasTaken(t) /\ HasTaken(o) => Counter(t) # Counter(o)

LEMMA PeriodOfIsAPeriod ==
    ASSUME NEW s \in Scopes, NEW y \in Years
    PROVE  PeriodOf(s, y) \in Periods
BY DEF PeriodOf, Periods

\* The two ends of a transaction, and a period that begins, touch one call.
LEMMA OneTaking ==
    ASSUME NumberingInv, NEW t \in Takers, NEW k \in Transactions, k.upTo =< k.from,
           taking' = [taking EXCEPT ![t] = k], UNCHANGED <<counter, numbered, year>>
    PROVE  NumberingInv'
<1>1. taking \in [Takers -> Transactions]
  BY DEF NumberingInv, NumberingTypeOK
<1>2. ~HasTaken(t)'
  BY <1>1 DEF HasTaken, Transactions
<1>3. \A o \in Takers \ {t} : taking'[o] = taking[o]
  BY <1>1
<1>4. NumberingTypeOK' /\ NoGapsInNumbers'
  BY <1>1 DEF NumberingInv, NumberingTypeOK, NoGapsInNumbers
<1> QED
  BY <1>2, <1>3, <1>4 DEF NumberingInv, HasTaken, Counter

LEMMA NumberingStep == NumberingInv /\ [NumberingNext]_numberVars => NumberingInv'
<1> SUFFICES ASSUME NumberingInv, [NumberingNext]_numberVars
             PROVE  NumberingInv'
  OBVIOUS
<1>t. taking \in [Takers -> Transactions] /\ counter \in [Counters -> 0 .. MaxNumber]
  BY DEF NumberingInv, NumberingTypeOK, Counters
<1>0. NoTaking \in Transactions
  BY NumberingAssumption DEF NoTaking, Transactions, Periods
<1>1. ASSUME NEW t \in Takers, NEW s \in Scopes, NEW serializable \in BOOLEAN,
             BeginNumbering(t, s, serializable)
      PROVE  NumberingInv'
  <2> DEFINE p == PeriodOf(s, year)
             seen == IF serializable THEN counter[<<s, p>>] ELSE -1
             k == [NoTaking EXCEPT !.scope = s, !.period = p, !.seen = seen]
  <2>1. p \in Periods
    BY PeriodOfIsAPeriod DEF NumberingInv, NumberingTypeOK
  <2>2. counter[<<s, p>>] \in 0 .. MaxNumber
    BY <1>t, <2>1 DEF Counters
  <2>3. k \in Transactions /\ k.upTo =< k.from
    <3>1. seen \in -1 .. MaxNumber
      BY <2>2, NumberingAssumption
    <3> HIDE DEF p, seen
    <3>2. k \in Transactions
      BY <1>0, <2>1, <3>1 DEF Transactions
    <3>3. k.upTo = NoTaking.upTo /\ k.from = NoTaking.from
      BY <1>0 DEF Transactions
    <3> QED
      BY <3>2, <3>3 DEF NoTaking
  <2>4. taking' = [taking EXCEPT ![t] = k] /\ UNCHANGED <<counter, numbered, year>>
    BY <1>1 DEF BeginNumbering
  <2> QED
    BY <2>3, <2>4, OneTaking
<1>2. ASSUME NEW t \in Takers, TakeNumber(t)
      PROVE  NumberingInv'
  <2> DEFINE from == IF HasTaken(t) THEN taking[t].from ELSE counter[Counter(t)]
             upTo == (IF HasTaken(t) THEN taking[t].upTo ELSE from) + 1
             k    == [taking[t] EXCEPT !.from = from, !.upTo = upTo]
  <2>1. /\ taking[t].scope # NoScope /\ ~CounterLocked(t) /\ upTo =< MaxNumber
        /\ UNCHANGED <<year, counter, numbered>>
    BY <1>2 DEF TakeNumber
  <2>2. taking[t] \in Transactions /\ Counter(t) \in Counters
    BY <1>t, <2>1 DEF Transactions, Counter, Counters
  <2>3. from = counter[Counter(t)] /\ from \in 0 .. MaxNumber
    BY <1>t, <2>2 DEF NumberingInv
  <2>4. upTo \in 1 .. MaxNumber /\ from < upTo
    <3>1. HasTaken(t) => taking[t].upTo \in 0 .. MaxNumber /\ taking[t].from < taking[t].upTo
      BY <2>2 DEF HasTaken, Transactions
    <3> QED
      BY <2>1, <2>3, <3>1, NumberingAssumption
  <2>5. taking' = [taking EXCEPT ![t] = k]
    BY <1>2, <1>t DEF TakeNumber
  <2> HIDE DEF from, upTo
  <2>6. /\ k \in Transactions /\ k.scope = taking[t].scope /\ k.period = taking[t].period
        /\ k.from = from /\ k.upTo = upTo
    <3>1. from \in 0 .. MaxNumber /\ upTo \in 0 .. MaxNumber
      BY <2>3, <2>4, NumberingAssumption
    <3> QED
      BY <2>2, <3>1 DEF Transactions
  <2> HIDE DEF k
  <2>7. /\ taking'[t] = k
        /\ \A o \in Takers \ {t} : taking'[o] = taking[o]
    BY <1>t, <2>5
  <2>8. NumberingTypeOK' /\ NoGapsInNumbers'
    BY <2>1, <2>5, <2>6, <1>t DEF NumberingInv, NumberingTypeOK, NoGapsInNumbers
  <2>9. Counter(t)' = Counter(t) /\ taking'[t].scope \in Scopes /\ taking'[t].from = counter'[Counter(t)']
    BY <2>1, <2>2, <2>3, <2>6, <2>7 DEF Counter, Transactions
  <2>10. \A o \in Takers \ {t} : (HasTaken(o)' <=> HasTaken(o)) /\ Counter(o)' = Counter(o)
    BY <2>7 DEF HasTaken, Counter
  <2>11. \A o \in Takers \ {t} : HasTaken(o) => Counter(o) # Counter(t)
    BY <2>1 DEF CounterLocked
  <2>12. \A o \in Takers : HasTaken(o)' =>
           taking'[o].scope \in Scopes /\ taking'[o].from = counter'[Counter(o)']
    BY <2>1, <2>7, <2>9, <2>10 DEF NumberingInv
  <2>13. \A o, q \in Takers : o # q /\ HasTaken(o)' /\ HasTaken(q)' => Counter(o)' # Counter(q)'
    BY <2>9, <2>10, <2>11 DEF NumberingInv
  <2> QED
    BY <2>8, <2>12, <2>13 DEF NumberingInv
<1>3. ASSUME NEW t \in Takers, CommitNumbered(t)
      PROVE  NumberingInv'
  <2>1. /\ HasTaken(t) /\ year' = year
        /\ counter' = [counter EXCEPT ![Counter(t)] = taking[t].upTo]
        /\ numbered' = [numbered EXCEPT ![Counter(t)] = numbered[Counter(t)] \cup Drawn(t)]
        /\ taking' = [taking EXCEPT ![t] = NoTaking]
    BY <1>3 DEF CommitNumbered
  <2>2. taking[t] \in Transactions /\ Counter(t) \in Counters /\ taking[t].from = counter[Counter(t)]
    BY <1>t, <2>1 DEF NumberingInv, Counter, Counters, Transactions
  <2>3. /\ taking[t].from \in 0 .. MaxNumber /\ taking[t].upTo \in 0 .. MaxNumber
        /\ taking[t].from < taking[t].upTo
    BY <2>1, <2>2 DEF Transactions, HasTaken
  <2>4. (1 .. taking[t].from) \cup Drawn(t) = 1 .. taking[t].upTo
    BY <2>3, NumberingAssumption DEF Drawn
  <2>5. /\ numbered \in [Counters -> SUBSET (1 .. MaxNumber)]
        /\ \A k \in Counters : numbered[k] = 1 .. counter[k]
    BY DEF NumberingInv, NumberingTypeOK, NoGapsInNumbers, Counters
  <2>6. \A k \in Counters : numbered'[k] = 1 .. counter'[k]
    <3>1. numbered'[Counter(t)] = 1 .. counter'[Counter(t)]
      BY <1>t, <2>1, <2>2, <2>4, <2>5
    <3>2. \A k \in Counters : k # Counter(t) => numbered'[k] = numbered[k] /\ counter'[k] = counter[k]
      BY <1>t, <2>1, <2>5
    <3> QED
      BY <2>5, <3>1, <3>2
  <2>7. numbered' \in [Counters -> SUBSET (1 .. MaxNumber)]
    <3>1. numbered[Counter(t)] \cup Drawn(t) \in SUBSET (1 .. MaxNumber)
      <4>1. Drawn(t) \subseteq 1 .. MaxNumber
        BY <2>3, NumberingAssumption DEF Drawn
      <4> QED
        BY <2>2, <2>5, <4>1
    <3> QED
      BY <2>1, <2>2, <2>5, <3>1
  <2>8. NumberingTypeOK'
    <3>1. counter' \in [Counters -> 0 .. MaxNumber] /\ taking' \in [Takers -> Transactions]
      BY <1>t, <1>0, <2>1, <2>2, <2>3
    <3> QED
      BY <2>1, <2>7, <3>1 DEF NumberingInv, NumberingTypeOK, Counters
  <2>9. ~HasTaken(t)' /\ \A o \in Takers \ {t} : taking'[o] = taking[o]
    BY <1>t, <2>1 DEF HasTaken, NoTaking
  <2>10. \A o \in Takers \ {t} : HasTaken(o) => counter'[Counter(o)] = counter[Counter(o)]
    <3>1. \A o \in Takers \ {t} : HasTaken(o) => Counter(o) # Counter(t) /\ Counter(o) \in Counters
      BY <1>t, <2>1 DEF NumberingInv, Counter, Counters, Transactions
    <3> QED
      BY <1>t, <2>1, <3>1
  <2>11. \A o \in Takers : HasTaken(o)' =>
           taking'[o].scope \in Scopes /\ taking'[o].from = counter'[Counter(o)']
    BY <2>9, <2>10 DEF NumberingInv, HasTaken, Counter
  <2>12. \A o, q \in Takers : o # q /\ HasTaken(o)' /\ HasTaken(q)' => Counter(o)' # Counter(q)'
    BY <2>9 DEF NumberingInv, HasTaken, Counter
  <2> QED
    BY <2>6, <2>8, <2>11, <2>12 DEF NumberingInv, NoGapsInNumbers, Counters
<1>4. ASSUME NEW t \in Takers, RollBackNumbered(t)
      PROVE  NumberingInv'
  <2>1. NoTaking.upTo =< NoTaking.from
    BY DEF NoTaking
  <2> QED
    BY <1>0, <1>4, <2>1, OneTaking DEF RollBackNumbered
<1>5. CASE NewYear
  BY <1>5 DEF NewYear, NumberingInv, NumberingTypeOK, NoGapsInNumbers, HasTaken, Counter
<1>6. CASE UNCHANGED numberVars
  BY <1>6 DEF numberVars, NumberingInv, NumberingTypeOK, NoGapsInNumbers, HasTaken, Counter
<1> QED
  BY <1>1, <1>2, <1>3, <1>4, <1>5, <1>6 DEF NumberingNext

(***************************************************************************)
(* References have no gap and no duplicate, whatever fails: a number is    *)
(* drawn under the lock of its counter and is committed with the row that  *)
(* carries it.                                                             *)
(***************************************************************************)
THEOREM NumbersHaveNoGaps == NumberingSpec => []NoGapsInNumbers
<1>1. NumberingInit => NumberingInv
  <2> SUFFICES ASSUME NumberingInit
               PROVE  NumberingInv
    OBVIOUS
  <2>1. NoTaking \in Transactions
    BY NumberingAssumption DEF NoTaking, Transactions, Periods
  <2>2. 1 .. 0 = {}
    OBVIOUS
  <2> QED
    BY <2>1, <2>2, NumberingAssumption DEF NumberingInit, NumberingInv, NumberingTypeOK,
          NoGapsInNumbers, HasTaken, NoTaking
<1>2. NumberingInv => NoGapsInNumbers
  BY DEF NumberingInv
<1> QED
  BY <1>1, <1>2, NumberingStep, PTL DEF NumberingSpec

-----------------------------------------------------------------------------
(* Issues *)

Finished == {"RESOLVED", "CLOSED"}

Tasks ==
    [op : TaskOps \cup {"none"}, issue : Reported \cup {Unassigned},
     was : IssueStatuses \cup {"NONE"}, assignee : Engineers \cup {Unassigned},
     reason : BOOLEAN, missed : BOOLEAN]

Rows ==
    [status : IssueStatuses \cup {"NONE"}, explained : BOOLEAN, resolvedAt : BOOLEAN,
     closedAt : BOOLEAN, assignee : Engineers \cup {Unassigned}]

\* The call's record: about an issue there is, with a reason where one is due.
TaskFormed(k) ==
    k.op # "none" =>
        /\ k.issue \in Reported /\ issue[k.issue].status # "NONE"
        /\ k.op = "closeIssue" => k.reason

\* Nothing was committed on its issue since: it is as it was when it was read.
TaskCurrent(k) ==
    k.op # "none" /\ ~k.missed =>
        /\ issue[k.issue].status = k.was
        /\ k.op = "startInvestigation" => k.was = "OPEN"

Explained(row)   == row.status \in Finished => row.explained
TimesAgree(row)  == /\ row.resolvedAt <=> row.status \in Finished
                    /\ row.closedAt <=> row.status = "CLOSED"

IssuesInv ==
    /\ issue \in [Reported -> Rows] /\ active \subseteq Engineers
    /\ task \in [IssueCalls -> Tasks]
    /\ \A c \in IssueCalls : TaskFormed(task[c]) /\ TaskCurrent(task[c])
    /\ \A i \in Reported : Explained(issue[i]) /\ (i \notin crossedIssues => TimesAgree(issue[i]))

LEMMA IssuesBegin == IssuesInit => IssuesInv
BY IssuesAssumption DEF IssuesInit, IssuesInv, NoIssue, NoTask, Rows, Tasks, TaskFormed, TaskCurrent, Explained,
       TimesAgree, Finished, IssueStatuses

\* A call reads: what it decided on is what it keeps.
LEMMA IssueRead ==
    ASSUME IssuesInv, NEW c \in IssueCalls, NEW i \in Reported, NEW r \in Tasks,
           ReadIssue(c, i, r), issue[i].status # "NONE",
           ~r.missed,
           r.op = "closeIssue" => r.reason,
           r.op = "startInvestigation" => issue[i].status = "OPEN"
    PROVE  IssuesInv'
<1> DEFINE k == [r EXCEPT !.issue = i, !.was = issue[i].status]
<1>k. k \in Tasks
  BY DEF Tasks, IssuesInv, Rows
<1>0. /\ task' = [task EXCEPT ![c] = k] /\ UNCHANGED <<issue, active, crossedIssues>>
  BY DEF ReadIssue
<1>f. TaskFormed(k) /\ TaskCurrent(k)
  <2>1. /\ k.op = r.op /\ k.issue = i /\ k.was = issue[i].status
        /\ k.reason = r.reason
    BY DEF Tasks
  <2> HIDE DEF k
  <2> QED
    BY <2>1 DEF TaskFormed, TaskCurrent
<1> HIDE DEF k
<1>1. task' \in [IssueCalls -> Tasks]
  BY <1>k, <1>0 DEF IssuesInv
<1>2. ASSUME NEW d \in IssueCalls
      PROVE  TaskFormed(task[d])' /\ TaskCurrent(task[d])'
  <2>1. task'[d] = IF d = c THEN k ELSE task[d]
    BY <1>0 DEF IssuesInv
  <2>2. TaskFormed(task'[d]) /\ TaskCurrent(task'[d])
    BY <1>f, <2>1 DEF IssuesInv
  <2> QED
    BY <1>0, <2>2 DEF TaskFormed, TaskCurrent
<1>3. \A j \in Reported : Explained(issue[j])' /\ (j \notin crossedIssues' => TimesAgree(issue[j])')
  BY <1>0 DEF IssuesInv, Explained, TimesAgree
<1>4. issue' \in [Reported -> Rows] /\ active' \subseteq Engineers
  BY <1>0 DEF IssuesInv
<1> QED
  BY <1>1, <1>2, <1>3, <1>4 DEF IssuesInv

LEMMA IssueReads ==
    ASSUME IssuesInv, NEW c \in IssueCalls, NEW i \in Reported,
           \/ ReadForUpdateIssue(c, i) \/ ReadForResolveIssue(c, i) \/ ReadForReopenIssue(c, i)
           \/ \E who \in Engineers \cup {Unassigned} : ReadForAssignIssue(c, i, who)
           \/ \E actor \in Engineers : ReadForInvestigation(c, i, actor)
           \/ \E given \in BOOLEAN : ReadForCloseIssue(c, i, given)
    PROVE  IssuesInv'
<1>1. issue[i] \in Rows /\ Explained(issue[i])
  BY DEF IssuesInv
<1>2. NoTask \in Tasks /\ ~NoTask.missed
  BY DEF NoTask, Tasks
<1>3. CASE ReadForUpdateIssue(c, i)
  <2> DEFINE r == [NoTask EXCEPT !.op = "updateIssue"]
  <2>1. r \in Tasks /\ r.op = "updateIssue" /\ r.missed = NoTask.missed
    BY <1>2 DEF Tasks, TaskOps
  <2>2. ReadIssue(c, i, r) /\ issue[i].status # "NONE"
    BY <1>3 DEF ReadForUpdateIssue, IsEditable
  <2> QED
    BY <1>2, <2>1, <2>2, IssueRead
<1>4. CASE ReadForResolveIssue(c, i)
  <2> DEFINE r == [NoTask EXCEPT !.op = "resolveIssue", !.reason = TRUE]
  <2>1. r \in Tasks /\ r.op = "resolveIssue" /\ r.missed = NoTask.missed
    BY <1>2 DEF Tasks, TaskOps
  <2>2. ReadIssue(c, i, r) /\ issue[i].status # "NONE"
    BY <1>4 DEF ReadForResolveIssue, MayBecome
  <2> QED
    BY <1>2, <2>1, <2>2, IssueRead
<1>5. CASE ReadForReopenIssue(c, i)
  <2> DEFINE r == [NoTask EXCEPT !.op = "reopenIssue"]
  <2>1. r \in Tasks /\ r.op = "reopenIssue" /\ r.missed = NoTask.missed
    BY <1>2 DEF Tasks, TaskOps
  <2>2. ReadIssue(c, i, r) /\ issue[i].status # "NONE"
    BY <1>5 DEF ReadForReopenIssue, MayBecome
  <2> QED
    BY <1>2, <2>1, <2>2, IssueRead
<1>6. ASSUME NEW who \in Engineers \cup {Unassigned}, ReadForAssignIssue(c, i, who)
      PROVE  IssuesInv'
  <2> DEFINE r == [NoTask EXCEPT !.op = "assignIssue", !.assignee = who]
  <2>1. r \in Tasks /\ r.op = "assignIssue" /\ r.missed = NoTask.missed
    BY <1>2 DEF Tasks, TaskOps
  <2>2. ReadIssue(c, i, r) /\ issue[i].status # "NONE"
    BY <1>6 DEF ReadForAssignIssue, IsEditable
  <2> QED
    BY <1>2, <2>1, <2>2, IssueRead
<1>7. ASSUME NEW actor \in Engineers, ReadForInvestigation(c, i, actor)
      PROVE  IssuesInv'
  <2> DEFINE who == IF issue[i].assignee = Unassigned THEN actor ELSE issue[i].assignee
             r   == [NoTask EXCEPT !.op = "startInvestigation", !.assignee = who]
  <2>1. who \in Engineers \cup {Unassigned}
    BY <1>1 DEF Rows
  <2>2. ReadIssue(c, i, r)
    BY <1>7 DEF ReadForInvestigation
  <2>3. issue[i].status = "OPEN"
    <3>1. issue[i].status \in IssueStatuses
      BY <1>1, <1>7 DEF ReadForInvestigation, MayBecome, Rows
    <3> QED
      BY <1>7, <3>1 DEF ReadForInvestigation, MayBecome, IssueTransitions, IssueStatuses
  <2> HIDE DEF who
  <2>4. r \in Tasks /\ r.op = "startInvestigation" /\ r.missed = NoTask.missed
    BY <1>2, <2>1 DEF Tasks, TaskOps
  <2> QED
    BY <1>2, <2>2, <2>3, <2>4, IssueRead
<1>8. ASSUME NEW given \in BOOLEAN, ReadForCloseIssue(c, i, given)
      PROVE  IssuesInv'
  <2> DEFINE reason == given \/ issue[i].explained
             r      == [NoTask EXCEPT !.op = "closeIssue", !.reason = reason]
  <2>1. reason
    BY <1>8 DEF ReadForCloseIssue, ClosingReason
  <2>2. ReadIssue(c, i, r) /\ issue[i].status # "NONE"
    BY <1>8 DEF ReadForCloseIssue, MayBecome
  <2>3. reason \in BOOLEAN
    OBVIOUS
  <2> HIDE DEF reason
  <2>4. r \in Tasks /\ r.op = "closeIssue" /\ r.missed = NoTask.missed /\ r.reason = reason
    BY <1>2, <2>3 DEF Tasks, TaskOps
  <2> QED
    BY <1>2, <2>1, <2>2, <2>4, IssueRead
<1> QED
  BY <1>3, <1>4, <1>5, <1>6, <1>7, <1>8

\* What a write makes of a row: a reason is on record wherever the issue ends
\* finished, and the times follow the status when the call is current.
LEMMA WorkedRow ==
    ASSUME NEW k \in Tasks, NEW row \in Rows, k.op # "none", row.status # "NONE",
           k.op = "closeIssue" => k.reason, Explained(row)
    PROVE  /\ Worked(k, row) \in Rows /\ Worked(k, row).status # "NONE"
           /\ Explained(Worked(k, row))
           /\ /\ TimesAgree(row) /\ row.status = k.was
              /\ k.op = "startInvestigation" => k.was = "OPEN"
              => TimesAgree(Worked(k, row))
<1> USE DEF Tasks, Rows, Explained, TimesAgree, Finished, IssueStatuses
<1>1. CASE k.op = "updateIssue"
  <2>1. Worked(k, row) = row
    BY <1>1 DEF Worked
  <2> QED
    BY <2>1
<1>2. CASE k.op = "assignIssue"
  <2> DEFINE w == [row EXCEPT !.assignee = k.assignee]
  <2>1. Worked(k, row) = w
    BY <1>2 DEF Worked
  <2>2. /\ w \in Rows /\ w.status = row.status /\ w.explained = row.explained
        /\ w.resolvedAt = row.resolvedAt /\ w.closedAt = row.closedAt
    OBVIOUS
  <2> QED
    BY <2>1, <2>2
<1>3. CASE k.op = "startInvestigation"
  <2> DEFINE w == [row EXCEPT !.status = "UNDER_INVESTIGATION", !.assignee = k.assignee]
  <2>1. Worked(k, row) = w
    BY <1>3 DEF Worked
  <2>2. /\ w \in Rows /\ w.status = "UNDER_INVESTIGATION"
        /\ w.resolvedAt = row.resolvedAt /\ w.closedAt = row.closedAt
    OBVIOUS
  <2> QED
    BY <1>3, <2>1, <2>2
<1>4. CASE k.op = "resolveIssue"
  <2> DEFINE w == [row EXCEPT !.status = "RESOLVED", !.explained = TRUE, !.resolvedAt = TRUE,
                              !.closedAt = FALSE]
  <2>1. Worked(k, row) = w
    BY <1>4 DEF Worked
  <2>2. w \in Rows /\ w.status = "RESOLVED" /\ w.explained /\ w.resolvedAt /\ ~w.closedAt
    OBVIOUS
  <2> QED
    BY <2>1, <2>2
<1>5. CASE k.op = "closeIssue"
  <2> DEFINE at == row.resolvedAt \/ k.was # "RESOLVED"
             w  == [row EXCEPT !.status = "CLOSED", !.explained = k.reason, !.resolvedAt = at,
                               !.closedAt = TRUE]
  <2>1. Worked(k, row) = w
    BY <1>5 DEF Worked
  <2>2. at \in BOOLEAN
    OBVIOUS
  <2>3. TimesAgree(row) /\ row.status = k.was => at
    OBVIOUS
  <2> HIDE DEF at
  <2>4. w \in Rows /\ w.status = "CLOSED" /\ w.explained = k.reason /\ w.resolvedAt = at /\ w.closedAt
    BY <2>2
  <2> QED
    BY <1>5, <2>1, <2>3, <2>4
<1>6. CASE k.op = "reopenIssue"
  <2> DEFINE w == [row EXCEPT !.status = "OPEN", !.resolvedAt = FALSE, !.closedAt = FALSE]
  <2>1. Worked(k, row) = w
    BY <1>6 DEF Worked
  <2>2. w \in Rows /\ w.status = "OPEN" /\ ~w.resolvedAt /\ ~w.closedAt
    OBVIOUS
  <2> QED
    BY <2>1, <2>2
<1> QED
  BY <1>1, <1>2, <1>3, <1>4, <1>5, <1>6 DEF TaskOps

LEMMA IssueWritten ==
    ASSUME IssuesInv, NEW c \in IssueCalls, WriteIssue(c)
    PROVE  IssuesInv'
<1> DEFINE k == task[c]
<1>1. /\ k.op # "none" /\ active' = active
      /\ issue' = [issue EXCEPT ![k.issue] = Worked(k, issue[k.issue])]
      /\ crossedIssues' = IF k.missed THEN crossedIssues \cup {k.issue} ELSE crossedIssues
  BY DEF WriteIssue
<1>2. /\ k \in Tasks /\ k.issue \in Reported /\ issue[k.issue] \in Rows
      /\ issue[k.issue].status # "NONE" /\ Explained(issue[k.issue])
      /\ k.op = "closeIssue" => k.reason
      /\ TaskCurrent(k)
  BY <1>1 DEF IssuesInv, TaskFormed
<1>3. /\ Worked(k, issue[k.issue]) \in Rows /\ Worked(k, issue[k.issue]).status # "NONE"
      /\ Explained(Worked(k, issue[k.issue]))
      /\ k.issue \notin crossedIssues /\ ~k.missed => TimesAgree(Worked(k, issue[k.issue]))
  BY <1>1, <1>2, WorkedRow DEF TaskCurrent, IssuesInv
<1>4. ASSUME NEW d \in IssueCalls
      PROVE  /\ task'[d] \in Tasks
             /\ TaskFormed(task[d])' /\ TaskCurrent(task[d])'
  <2>1. task[d] \in Tasks /\ TaskFormed(task[d]) /\ TaskCurrent(task[d])
    BY DEF IssuesInv
  <2>2. CASE d = c
    <3>1. task'[d] = NoTask
      BY <2>2 DEF WriteIssue
    <3> QED
      BY <3>1 DEF NoTask, Tasks, TaskFormed, TaskCurrent
  <2>3. CASE d # c /\ task[d].issue = k.issue
    <3>1. task'[d] = [task[d] EXCEPT !.missed = TRUE]
      BY <2>3 DEF WriteIssue
    <3>2. /\ task'[d] \in Tasks /\ task'[d].missed /\ task'[d].op = task[d].op
          /\ task'[d].issue = task[d].issue /\ task'[d].reason = task[d].reason
      BY <2>1, <3>1 DEF Tasks
    <3>3. issue'[k.issue].status # "NONE"
      BY <1>1, <1>2, <1>3 DEF IssuesInv
    <3> QED
      BY <2>1, <2>3, <3>2, <3>3 DEF TaskFormed, TaskCurrent
  <2>4. CASE d # c /\ task[d].issue # k.issue
    <3>1. task'[d] = task[d]
      BY <2>4 DEF WriteIssue
    <3>2. task[d].op # "none" => issue'[task[d].issue] = issue[task[d].issue]
      BY <1>1, <2>1, <2>4 DEF TaskFormed, IssuesInv
    <3> QED
      BY <2>1, <3>1, <3>2 DEF TaskFormed, TaskCurrent
  <2> QED
    BY <2>2, <2>3, <2>4
<1>5. task' \in [IssueCalls -> Tasks]
  BY <1>4 DEF WriteIssue
<1>6. issue' \in [Reported -> Rows]
  BY <1>1, <1>2, <1>3 DEF IssuesInv
<1>7. ASSUME NEW i \in Reported
      PROVE  Explained(issue[i])' /\ (i \notin crossedIssues' => TimesAgree(issue[i])')
  <2>1. CASE i = k.issue
    <3>1. issue'[i] = Worked(k, issue[k.issue])
      BY <1>1, <1>2, <2>1 DEF IssuesInv
    <3>2. i \notin crossedIssues' => ~k.missed /\ k.issue \notin crossedIssues
      BY <1>1, <2>1
    <3> QED
      BY <1>3, <3>1, <3>2 DEF Explained, TimesAgree
  <2>2. CASE i # k.issue
    <3>1. issue'[i] = issue[i]
      BY <1>1, <2>2 DEF IssuesInv
    <3>2. i \notin crossedIssues' => i \notin crossedIssues
      BY <1>1
    <3> QED
      BY <3>1, <3>2 DEF IssuesInv, Explained, TimesAgree
  <2> QED
    BY <2>1, <2>2
<1> QED
  BY <1>1, <1>4, <1>5, <1>6, <1>7 DEF IssuesInv

LEMMA IssueCreated ==
    ASSUME IssuesInv, NEW i \in Reported, NEW who \in Engineers \cup {Unassigned},
           CreateIssue(i, who)
    PROVE  IssuesInv'
<1> DEFINE row == [NoIssue EXCEPT !.status = "OPEN", !.assignee = who]
<1>1. /\ issue' = [issue EXCEPT ![i] = row] /\ issue[i].status = "NONE"
      /\ UNCHANGED <<active, task, crossedIssues>>
  BY DEF CreateIssue
<1>2. NoIssue \in Rows /\ ~NoIssue.resolvedAt /\ ~NoIssue.closedAt
  BY DEF NoIssue, Rows
<1>3. /\ row \in Rows /\ row.status = "OPEN"
      /\ row.resolvedAt = NoIssue.resolvedAt /\ row.closedAt = NoIssue.closedAt
  BY <1>2 DEF Rows, IssueStatuses
<1> HIDE DEF row
<1>4. issue' \in [Reported -> Rows]
  BY <1>1, <1>3 DEF IssuesInv
<1>5. ASSUME NEW c \in IssueCalls
      PROVE  TaskFormed(task[c])' /\ TaskCurrent(task[c])'
  <2>1. TaskFormed(task[c]) /\ TaskCurrent(task[c]) /\ task'[c] = task[c]
    BY <1>1 DEF IssuesInv
  <2>2. task[c].op # "none" => issue'[task[c].issue] = issue[task[c].issue]
    BY <1>1, <2>1 DEF TaskFormed, IssuesInv
  <2> QED
    BY <2>1, <2>2 DEF TaskFormed, TaskCurrent
<1>6. ASSUME NEW j \in Reported
      PROVE  Explained(issue[j])' /\ (j \notin crossedIssues' => TimesAgree(issue[j])')
  <2>1. issue'[j] = IF j = i THEN row ELSE issue[j]
    BY <1>1 DEF IssuesInv
  <2> QED
    BY <1>1, <1>2, <1>3, <2>1 DEF IssuesInv, Explained, TimesAgree, Finished
<1> QED
  BY <1>1, <1>4, <1>5, <1>6 DEF IssuesInv

LEMMA IssuesInductive == IssuesInv /\ [IssuesNext]_issueVars => IssuesInv'
<1> SUFFICES ASSUME IssuesInv, [IssuesNext]_issueVars
             PROVE  IssuesInv'
  OBVIOUS
<1>1. ASSUME NEW u \in Engineers, SwitchEngineer(u)
      PROVE  IssuesInv'
  BY <1>1 DEF SwitchEngineer, IssuesInv, TaskFormed, TaskCurrent, Explained, TimesAgree
<1>2. CASE UNCHANGED issueVars
  BY <1>2 DEF issueVars, IssuesInv, TaskFormed, TaskCurrent, Explained, TimesAgree
<1>3. CASE IssuesStep
  BY <1>1, <1>3, IssueCreated, IssueReads, IssueWritten DEF IssuesStep
<1> QED
  BY <1>2, <1>3 DEF IssuesNext

(***************************************************************************)
(* However many calls race on however many issues, a finished one has its  *)
(* reason in writing, and its times agree with its status unless calls     *)
(* crossed on it: the second half of the invariant is what a call may rely *)
(* on when nothing was committed since it read.                            *)
(***************************************************************************)
THEOREM FinishedIssuesAreExplained == IssuesSpec => []FinishedIsExplained
<1>1. IssuesInv => FinishedIsExplained
  BY DEF IssuesInv, FinishedIsExplained, Explained, TimesAgree, Finished
<1> QED
  BY <1>1, IssuesBegin, IssuesInductive, PTL DEF IssuesSpec

-----------------------------------------------------------------------------
(* The editor directory *)

Profiles ==
    [row : {"NONE", "LIVE", "REMOVED"}, external : BOOLEAN, active : BOOLEAN,
     account : People \cup {Nobody}]

\* A call's record.
EditFormed(k) ==
    /\ k.op \in EditOps \cup {"none"}
    /\ k.op # "none" => k.editor \in Editors /\ profile[k.editor].row # "NONE"
    /\ k.op = "linkEditorUser" => k.to \in People
    /\ k.op \in {"createBooking", "reserveBooking"} => k.to \in {"draft", "live"}

\* Nothing was committed on its profile or its bookings since it read them,
\* but that a booking came to its end: what it decided on still holds.
EditCurrent(k) ==
    k.op # "none" /\ ~k.missed =>
        /\ Live(k.editor)
        /\ k.op = "updateEditor" /\ k.to = "EXTERNAL" => profile[k.editor].account = Nobody
        /\ k.op = "linkEditorUser" => ~profile[k.editor].external
        /\ k.op = "setEditorActive" /\ k.to # "on" => engaged[k.editor] # "live"
        /\ k.op = "removeEditor" => engaged[k.editor] = "none"
        /\ k.op \in {"createBooking", "reserveBooking"} => profile[k.editor].active

\* What is said of a profile on which no calls crossed.
ProfileSound(p, bookings) ==
    /\ p.external => p.account = Nobody
    /\ p.row = "REMOVED" => ~p.active /\ p.account = Nobody /\ bookings = "none"
    /\ bookings = "live" => p.row = "LIVE" /\ p.active

DirectoryInv ==
    /\ profile \in [Editors -> Profiles]
    /\ engaged \in [Editors -> {"none", "draft", "live", "past"}]
    /\ DOMAIN edit = DirectoryCalls
    /\ \A c \in DirectoryCalls : EditFormed(edit[c]) /\ EditCurrent(edit[c])
    /\ \A e \in Editors \ crossedProfiles : ProfileSound(profile[e], engaged[e])
    /\ OneProfilePerAccount

LEMMA DirectoryBegins == DirectoryInit => DirectoryInv
BY DEF DirectoryInit, DirectoryInv, NoProfile, NoEdit, Profiles, EditFormed, EditCurrent,
       ProfileSound, OneProfilePerAccount

LEMMA ProfileRead ==
    ASSUME DirectoryInv, NEW c \in DirectoryCalls, NEW e \in Editors, NEW op \in EditOps, NEW to,
           ReadProfile(c, e, op, to), Live(e),
           op = "updateEditor" /\ to = "EXTERNAL" => profile[e].account = Nobody,
           op = "linkEditorUser" => to \in People /\ ~profile[e].external,
           op = "setEditorActive" /\ to # "on" => engaged[e] # "live",
           op = "removeEditor" => engaged[e] = "none",
           op \in {"createBooking", "reserveBooking"} =>
              to \in {"draft", "live"} /\ profile[e].active
    PROVE  DirectoryInv'
<1> DEFINE k == [NoEdit EXCEPT !.op = op, !.editor = e, !.to = to]
<1>1. k.op = op /\ k.editor = e /\ k.to = to /\ ~k.missed
  BY DEF NoEdit
<1>2. edit' = [edit EXCEPT ![c] = k] /\ UNCHANGED <<profile, engaged, disabled, crossedProfiles>>
  BY DEF ReadProfile
<1> HIDE DEF k
<1>3. EditFormed(k) /\ EditCurrent(k)
  BY <1>1 DEF EditFormed, EditCurrent, Live
<1>4. ASSUME NEW d \in DirectoryCalls
      PROVE  EditFormed(edit[d])' /\ EditCurrent(edit[d])'
  <2>1. edit'[d] = IF d = c THEN k ELSE edit[d]
    BY <1>2 DEF DirectoryInv
  <2>2. EditFormed(edit'[d]) /\ EditCurrent(edit'[d])
    BY <1>3, <2>1 DEF DirectoryInv
  <2> QED
    BY <1>2, <2>2 DEF EditFormed, EditCurrent, Live
<1> QED
  BY <1>2, <1>4 DEF DirectoryInv, OneProfilePerAccount, ProfileSound

LEMMA ProfileReads ==
    ASSUME DirectoryInv, NEW c \in DirectoryCalls, NEW e \in Editors,
           \/ \E external \in BOOLEAN : ReadForUpdateEditor(c, e, external)
           \/ ReadForSetEditorActive(c, e)
           \/ \E a \in People : ReadForLinkEditorUser(c, e, a)
           \/ ReadForUnlinkEditorUser(c, e)
           \/ ReadForRemoveEditor(c, e)
           \/ ReadForBooking(c, e)
    PROVE  DirectoryInv'
<1> USE DEF EditOps
<1>1. ASSUME NEW external \in BOOLEAN, ReadForUpdateEditor(c, e, external)
      PROVE  DirectoryInv'
  <2>1. Live(e) /\ (external => profile[e].account = Nobody)
    BY <1>1 DEF ReadForUpdateEditor
  <2>2. \/ external /\ ReadProfile(c, e, "updateEditor", "EXTERNAL")
        \/ ReadProfile(c, e, "updateEditor", "INTERNAL")
    BY <1>1 DEF ReadForUpdateEditor
  <2> QED
    BY <2>1, <2>2, ProfileRead
<1>2. CASE ReadForSetEditorActive(c, e)
  <2>1. Live(e) /\ (profile[e].active => engaged[e] # "live")
    BY <1>2 DEF ReadForSetEditorActive, EditorDeactivatable
  <2>2. \/ profile[e].active /\ ReadProfile(c, e, "setEditorActive", "off")
        \/ ReadProfile(c, e, "setEditorActive", "on")
    BY <1>2 DEF ReadForSetEditorActive
  <2> QED
    BY <2>1, <2>2, ProfileRead
<1>3. ASSUME NEW a \in People, ReadForLinkEditorUser(c, e, a)
      PROVE  DirectoryInv'
  BY <1>3, ProfileRead DEF ReadForLinkEditorUser, Linkable
<1>4. CASE ReadForUnlinkEditorUser(c, e)
  BY <1>4, ProfileRead DEF ReadForUnlinkEditorUser
<1>5. CASE ReadForRemoveEditor(c, e)
  BY <1>5, ProfileRead DEF ReadForRemoveEditor, EditorRemovable
<1>6. CASE ReadForBooking(c, e)
  <2>1. Live(e) /\ profile[e].active
    BY <1>6 DEF ReadForBooking, BookableProfile
  <2>2. \/ ReadProfile(c, e, "createBooking", "draft")
        \/ ReadProfile(c, e, "reserveBooking", "live")
    BY <1>6 DEF ReadForBooking
  <2> QED
    BY <2>1, <2>2, ProfileRead
<1> QED
  BY <1>1, <1>2, <1>3, <1>4, <1>5, <1>6

\* What a write makes of a profile.
LEMMA EditedProfile ==
    ASSUME NEW k, NEW p \in Profiles, NEW a, k.op \in EditOps, p.row # "NONE",
           k.op = "linkEditorUser" => k.to \in People,
           a = Edited(k, p)
    PROVE  /\ a \in Profiles /\ a.row # "NONE"
           /\ k.op = "updateEditor" =>
                /\ a.external <=> k.to = "EXTERNAL"
                /\ a.row = p.row /\ a.active = p.active /\ a.account = p.account
           /\ k.op = "setEditorActive" =>
                /\ a.active <=> k.to = "on"
                /\ a.row = p.row /\ a.external = p.external /\ a.account = p.account
           /\ k.op = "linkEditorUser" =>
                /\ a.account = k.to
                /\ a.row = p.row /\ a.external = p.external /\ a.active = p.active
           /\ k.op = "unlinkEditorUser" =>
                /\ a.account = Nobody
                /\ a.row = p.row /\ a.external = p.external /\ a.active = p.active
           /\ k.op = "removeEditor" => a.row = "REMOVED" /\ ~a.active /\ a.account = Nobody
           /\ k.op \in {"createBooking", "reserveBooking"} => a = p
<1> USE DEF Profiles
<1>1. CASE k.op = "updateEditor"
  <2> DEFINE x == (k.to = "EXTERNAL")
  <2>1. a = [p EXCEPT !.external = x] /\ x \in BOOLEAN
    BY <1>1 DEF Edited
  <2> HIDE DEF x
  <2>2. /\ a \in Profiles /\ a.external = x /\ a.row = p.row /\ a.active = p.active
        /\ a.account = p.account
    BY <2>1
  <2> QED
    BY <1>1, <2>2 DEF x
<1>2. CASE k.op = "setEditorActive"
  <2> DEFINE x == (k.to = "on")
  <2>1. a = [p EXCEPT !.active = x] /\ x \in BOOLEAN
    BY <1>2 DEF Edited
  <2> HIDE DEF x
  <2>2. /\ a \in Profiles /\ a.active = x /\ a.row = p.row /\ a.external = p.external
        /\ a.account = p.account
    BY <2>1
  <2> QED
    BY <1>2, <2>2 DEF x
<1>3. CASE k.op = "linkEditorUser"
  <2>1. a = [p EXCEPT !.account = k.to]
    BY <1>3 DEF Edited
  <2> QED
    BY <1>3, <2>1
<1>4. CASE k.op = "unlinkEditorUser"
  <2>1. a = [p EXCEPT !.account = Nobody]
    BY <1>4 DEF Edited
  <2> QED
    BY <1>4, <2>1
<1>5. CASE k.op = "removeEditor"
  <2>1. a = [p EXCEPT !.row = "REMOVED", !.active = FALSE, !.account = Nobody]
    BY <1>5 DEF Edited
  <2> QED
    BY <1>5, <2>1
<1>6. CASE k.op \in {"createBooking", "reserveBooking"}
  <2>1. a = p
    BY <1>6 DEF Edited
  <2> QED
    BY <1>6, <2>1
<1> QED
  BY <1>1, <1>2, <1>3, <1>4, <1>5, <1>6 DEF EditOps

LEMMA ProfileWritten ==
    ASSUME DirectoryInv, NEW c \in DirectoryCalls, WriteEdit(c),
           ~(edit[c].op = "linkEditorUser" /\ RefusedByUserIndex(edit[c].editor, edit[c].to))
    PROVE  DirectoryInv'
<1> DEFINE k == edit[c]
           e == k.editor
           p == profile[e]
           a == Edited(k, p)
           n == IF k.op \in {"createBooking", "reserveBooking"} THEN k.to ELSE engaged[e]
<1>1. /\ k.op # "none" /\ disabled' = disabled
      /\ profile' = [profile EXCEPT ![e] = a]
      /\ engaged' = [engaged EXCEPT ![e] = n]
      /\ edit' = [d \in DirectoryCalls |->
                    IF d = c THEN NoEdit
                    ELSE IF edit[d].editor = e THEN [edit[d] EXCEPT !.missed = TRUE]
                    ELSE edit[d]]
      /\ crossedProfiles' = IF k.missed THEN crossedProfiles \cup {e} ELSE crossedProfiles
  BY DEF WriteEdit
<1>2. EditFormed(k) /\ EditCurrent(k)
  BY DEF DirectoryInv
<1>3. k.op \in EditOps /\ e \in Editors /\ p \in Profiles /\ p.row # "NONE"
  BY <1>1, <1>2 DEF EditFormed, DirectoryInv
<1>4. k.op = "linkEditorUser" => k.to \in People
  BY <1>2 DEF EditFormed
<1>5. a \in Profiles /\ a.row # "NONE"
  BY <1>3, <1>4, EditedProfile
<1>6. n \in {"none", "draft", "live", "past"}
  BY <1>2, <1>3 DEF EditFormed, DirectoryInv
<1>7. e \notin crossedProfiles /\ ~k.missed => ProfileSound(a, n)
  <2> SUFFICES ASSUME e \notin crossedProfiles, ~k.missed
               PROVE  ProfileSound(a, n)
    OBVIOUS
  <2>1. ProfileSound(p, engaged[e]) /\ p.row = "LIVE"
    BY <1>1, <1>2, <1>3 DEF DirectoryInv, EditCurrent, Live
  <2>2. CASE k.op = "updateEditor"
    <3>1. a.external => p.account = Nobody
      BY <1>1, <1>2, <1>3, <2>2, EditedProfile DEF EditCurrent
    <3>2. a.row = p.row /\ a.active = p.active /\ a.account = p.account /\ n = engaged[e]
      BY <1>3, <2>2, EditedProfile
    <3> HIDE DEF a, n
    <3> QED
      BY <2>1, <3>1, <3>2 DEF ProfileSound
  <2>3. CASE k.op = "setEditorActive"
    <3>1. a.active \/ n # "live"
      BY <1>1, <1>2, <1>3, <2>3, EditedProfile DEF EditCurrent
    <3>2. a.row = p.row /\ a.external = p.external /\ a.account = p.account /\ n = engaged[e]
      BY <1>3, <2>3, EditedProfile
    <3> HIDE DEF a, n
    <3> QED
      BY <2>1, <3>1, <3>2 DEF ProfileSound
  <2>4. CASE k.op = "linkEditorUser"
    <3>1. ~p.external
      BY <1>1, <1>2, <2>4 DEF EditCurrent
    <3>2. a.row = p.row /\ a.external = p.external /\ a.active = p.active /\ n = engaged[e]
      BY <1>3, <1>4, <2>4, EditedProfile
    <3> HIDE DEF a, n
    <3> QED
      BY <2>1, <3>1, <3>2 DEF ProfileSound
  <2>5. CASE k.op = "unlinkEditorUser"
    <3>1. /\ a.row = p.row /\ a.external = p.external /\ a.active = p.active
          /\ a.account = Nobody /\ n = engaged[e]
      BY <1>3, <2>5, EditedProfile
    <3> HIDE DEF a, n
    <3> QED
      BY <2>1, <3>1 DEF ProfileSound
  <2>6. CASE k.op = "removeEditor"
    <3>1. a.row = "REMOVED" /\ ~a.active /\ a.account = Nobody /\ n = "none"
      BY <1>1, <1>2, <1>3, <2>6, EditedProfile DEF EditCurrent
    <3> HIDE DEF a, n
    <3> QED
      BY <3>1 DEF ProfileSound
  <2>7. CASE k.op \in {"createBooking", "reserveBooking"}
    <3>1. a = p /\ p.active
      BY <1>1, <1>2, <1>3, <2>7, EditedProfile DEF EditCurrent
    <3> HIDE DEF a, n
    <3> QED
      BY <2>1, <3>1 DEF ProfileSound
  <2> QED
    BY <1>3, <2>2, <2>3, <2>4, <2>5, <2>6, <2>7 DEF EditOps
<1>8. a.account # Nobody => \A o \in Editors \ {e} : profile[o].account # a.account
  <2>1. a.account \in {p.account, Nobody} \/ (k.op = "linkEditorUser" /\ a.account = k.to)
    BY <1>3, <1>4, EditedProfile DEF EditOps
  <2>2. k.op = "linkEditorUser" => \A o \in Editors \ {e} : profile[o].account # k.to
    BY DEF RefusedByUserIndex
  <2>3. p.account # Nobody => \A o \in Editors \ {e} : profile[o].account # p.account
    BY <1>3 DEF DirectoryInv, OneProfilePerAccount
  <2> HIDE DEF a
  <2> QED
    BY <2>1, <2>2, <2>3
<1> HIDE DEF a, n
<1>9. \A o \in Editors : profile'[o] = IF o = e THEN a ELSE profile[o]
  BY <1>1 DEF DirectoryInv
<1>10. \A o \in Editors : engaged'[o] = IF o = e THEN n ELSE engaged[o]
  BY <1>1 DEF DirectoryInv
<1>11. ASSUME NEW d \in DirectoryCalls
       PROVE  EditFormed(edit[d])' /\ EditCurrent(edit[d])'
  <2>1. EditFormed(edit[d]) /\ EditCurrent(edit[d])
    BY DEF DirectoryInv
  <2>2. CASE d = c
    <3>1. edit'[d] = NoEdit
      BY <1>1, <2>2
    <3> QED
      BY <3>1 DEF NoEdit, EditFormed, EditCurrent
  <2>3. CASE d # c /\ edit[d].editor = e
    <3>1. edit'[d] = [edit[d] EXCEPT !.missed = TRUE]
      BY <1>1, <2>3
    <3>2. /\ edit'[d].op = edit[d].op /\ edit'[d].editor = edit[d].editor
          /\ edit'[d].to = edit[d].to
      BY <3>1
    <3>3. edit'[d].missed \/ edit'[d].op = "none"
      BY <2>1, <3>1 DEF EditFormed
    <3>4. profile'[e].row # "NONE"
      BY <1>3, <1>5, <1>9
    <3> QED
      BY <2>1, <2>3, <3>2, <3>3, <3>4 DEF EditFormed, EditCurrent
  <2>4. CASE d # c /\ edit[d].editor # e
    <3>1. edit'[d] = edit[d]
      BY <1>1, <2>4
    <3>2. edit[d].op # "none" =>
            /\ profile'[edit[d].editor] = profile[edit[d].editor]
            /\ engaged'[edit[d].editor] = engaged[edit[d].editor]
      BY <1>9, <1>10, <2>1, <2>4 DEF EditFormed
    <3> QED
      BY <2>1, <3>1, <3>2 DEF EditFormed, EditCurrent, Live
  <2> QED
    BY <2>2, <2>3, <2>4
<1>12. ASSUME NEW o \in Editors \ crossedProfiles'
       PROVE  ProfileSound(profile[o], engaged[o])'
  <2>1. o \notin crossedProfiles /\ (o = e => ~k.missed)
    BY <1>1, <1>12
  <2>2. ProfileSound(profile'[o], engaged'[o])
    BY <1>7, <1>9, <1>10, <2>1 DEF DirectoryInv
  <2> QED
    BY <2>2 DEF ProfileSound
<1>13. OneProfilePerAccount'
  BY <1>8, <1>9 DEF DirectoryInv, OneProfilePerAccount
<1>14. /\ profile' \in [Editors -> Profiles]
       /\ engaged' \in [Editors -> {"none", "draft", "live", "past"}]
       /\ DOMAIN edit' = DirectoryCalls
  BY <1>1, <1>5, <1>6 DEF DirectoryInv
<1> QED
  BY <1>11, <1>12, <1>13, <1>14 DEF DirectoryInv

LEMMA ProfileRefused ==
    ASSUME DirectoryInv, NEW c \in DirectoryCalls, WriteEdit(c),
           edit[c].op = "linkEditorUser" /\ RefusedByUserIndex(edit[c].editor, edit[c].to)
    PROVE  DirectoryInv'
<1>1. edit' = [edit EXCEPT ![c] = NoEdit] /\ UNCHANGED <<profile, engaged, crossedProfiles>>
  BY DEF WriteEdit
<1>2. ASSUME NEW d \in DirectoryCalls
      PROVE  EditFormed(edit[d])' /\ EditCurrent(edit[d])'
  <2>1. edit'[d] = IF d = c THEN NoEdit ELSE edit[d]
    BY <1>1 DEF DirectoryInv
  <2>2. EditFormed(edit'[d]) /\ EditCurrent(edit'[d])
    BY <2>1 DEF DirectoryInv, NoEdit, EditFormed, EditCurrent
  <2> QED
    BY <1>1, <2>2 DEF EditFormed, EditCurrent, Live
<1> QED
  BY <1>1, <1>2 DEF DirectoryInv, OneProfilePerAccount, ProfileSound

LEMMA ProfileCreated ==
    ASSUME DirectoryInv, NEW e \in Editors, NEW external \in BOOLEAN, NEW on \in BOOLEAN,
           NEW a \in People \cup {Nobody}, CreateEditor(e, external, on, a)
    PROVE  DirectoryInv'
<1> DEFINE new == [row |-> "LIVE", external |-> external, active |-> on, account |-> a]
<1>1. /\ profile' = [profile EXCEPT ![e] = new] /\ profile[e].row = "NONE"
      /\ UNCHANGED <<engaged, disabled, edit, crossedProfiles>>
      /\ a # Nobody => ~external /\ \A o \in Editors \ {e} : profile[o].account # a
  BY DEF CreateEditor, RefusedByUserIndex
<1>2. /\ new \in Profiles /\ new.row = "LIVE" /\ new.external = external
      /\ new.active = on /\ new.account = a
  BY DEF Profiles
<1> HIDE DEF new
<1>3. \A o \in Editors : profile'[o] = IF o = e THEN new ELSE profile[o]
  BY <1>1 DEF DirectoryInv
<1>4. ASSUME NEW d \in DirectoryCalls
      PROVE  EditFormed(edit[d])' /\ EditCurrent(edit[d])'
  <2>1. EditFormed(edit[d]) /\ EditCurrent(edit[d]) /\ edit'[d] = edit[d]
    BY <1>1 DEF DirectoryInv
  <2>2. edit[d].op # "none" => profile'[edit[d].editor] = profile[edit[d].editor]
    BY <1>1, <1>3, <2>1 DEF EditFormed
  <2> QED
    BY <1>1, <2>1, <2>2 DEF EditFormed, EditCurrent, Live
<1>5. ASSUME NEW o \in Editors \ crossedProfiles'
      PROVE  ProfileSound(profile[o], engaged[o])'
  <2>1. ProfileSound(profile[o], engaged[o]) /\ engaged'[o] = engaged[o]
    BY <1>1, <1>5 DEF DirectoryInv
  <2>2. CASE o # e
    BY <1>3, <2>1, <2>2 DEF ProfileSound
  <2>3. CASE o = e
    <3>1. engaged[o] # "live"
      BY <1>1, <2>1, <2>3 DEF ProfileSound
    <3> QED
      BY <1>1, <1>2, <1>3, <2>1, <2>3, <3>1 DEF ProfileSound
  <2> QED
    BY <2>2, <2>3
<1>6. OneProfilePerAccount'
  BY <1>1, <1>2, <1>3 DEF DirectoryInv, OneProfilePerAccount
<1>7. profile' \in [Editors -> Profiles]
  BY <1>1, <1>2 DEF DirectoryInv
<1> QED
  BY <1>1, <1>4, <1>5, <1>6, <1>7 DEF DirectoryInv

LEMMA DirectoryInductive == DirectoryInv /\ [DirectoryNext]_directoryVars => DirectoryInv'
<1> SUFFICES ASSUME DirectoryInv, [DirectoryNext]_directoryVars
             PROVE  DirectoryInv'
  OBVIOUS
<1>1. ASSUME NEW e \in Editors, CloseBooking(e)
      PROVE  DirectoryInv'
  <2>1. /\ engaged[e] \in {"draft", "live"} /\ engaged' = [engaged EXCEPT ![e] = "past"]
        /\ UNCHANGED <<profile, disabled, edit, crossedProfiles>>
    BY <1>1 DEF CloseBooking
  <2>2. \A o \in Editors : engaged'[o] = IF o = e THEN "past" ELSE engaged[o]
    BY <2>1 DEF DirectoryInv
  <2>3. ASSUME NEW d \in DirectoryCalls
        PROVE  EditFormed(edit[d])' /\ EditCurrent(edit[d])'
    <3>1. EditFormed(edit[d]) /\ EditCurrent(edit[d]) /\ edit'[d] = edit[d] /\ profile' = profile
      BY <2>1 DEF DirectoryInv
    <3> QED
      BY <2>1, <2>2, <3>1 DEF EditFormed, EditCurrent, Live
  <2>4. ASSUME NEW o \in Editors \ crossedProfiles'
        PROVE  ProfileSound(profile[o], engaged[o])'
    BY <2>1, <2>2, <2>4 DEF DirectoryInv, ProfileSound
  <2> QED
    BY <2>1, <2>3, <2>4 DEF DirectoryInv, OneProfilePerAccount
<1>2. ASSUME NEW a \in People, SwitchAccount(a)
      PROVE  DirectoryInv'
  BY <1>2 DEF SwitchAccount, DirectoryInv, EditFormed, EditCurrent, Live, ProfileSound,
        OneProfilePerAccount
<1>3. CASE UNCHANGED directoryVars
  BY <1>3 DEF directoryVars, DirectoryInv, EditFormed, EditCurrent, Live, ProfileSound,
        OneProfilePerAccount
<1>4. CASE DirectoryStep
  BY <1>1, <1>2, <1>4, ProfileReads, ProfileWritten, ProfileRefused, ProfileCreated DEF DirectoryStep
<1> QED
  BY <1>3, <1>4 DEF DirectoryNext

(***************************************************************************)
(* An account speaks for one editor at most whatever races, and a profile  *)
(* on which no calls crossed keeps every rule.  The first needs only the   *)
(* unique index; the second rests on what a call may rely on while nothing *)
(* was committed since it read.                                            *)
(***************************************************************************)
THEOREM ProfilesStayConsistent == DirectorySpec => []ProfilesConsistent
<1>1. DirectoryInv => ProfilesConsistent
  BY DEF DirectoryInv, ProfilesConsistent, ProfileSound, BookableProfile, Live
<1> QED
  BY <1>1, DirectoryBegins, DirectoryInductive, PTL DEF DirectorySpec

-----------------------------------------------------------------------------
(* Photos *)

\* How far an upload has come is what is stored and recorded of it.
Stages ==
    \A p \in Photos :
        /\ upload[p] \in {"none", "checked"} => p \notin stored /\ p \notin recorded
        /\ upload[p] = "saved" => p \in stored /\ p \notin recorded
        /\ upload[p] = "inserted" => p \in stored /\ p \in recorded

\* While uploads do not overlap there is room for the one that was let in.
Room ==
    overlapped \/ /\ \A p, q \in UnderWay : p = q
                  /\ IF UnderWay = {} THEN Cardinality(recorded) <= PhotoLimit
                     ELSE Cardinality(recorded) < PhotoLimit

EvidenceInv ==
    /\ upload \in [Photos -> {"none", "checked", "saved", "inserted", "ended"}]
    /\ recorded \subseteq Photos /\ IsFiniteSet(recorded) /\ overlapped \in BOOLEAN
    /\ Stages
    /\ recorded \ stored \subseteq unaudited
    /\ stored \ recorded \subseteq UnderWay \cup strays
    /\ record.finished => recorded \cup UnderWay \subseteq sealed
    /\ Room

LEMMA EvidenceBegins == EvidenceInit => EvidenceInv
<1> SUFFICES ASSUME EvidenceInit
             PROVE  EvidenceInv
  OBVIOUS
<1>1. IsFiniteSet({}) /\ Cardinality({}) = 0
  BY FS_EmptySet
<1>2. UnderWay = {} /\ ~record.finished
  BY DEF EvidenceInit, UnderWay
<1>3. Stages
  BY DEF EvidenceInit, Stages
<1>4. Room
  BY <1>1, <1>2, EvidenceAssumption DEF EvidenceInit, Room
<1>5. upload \in [Photos -> {"none", "checked", "saved", "inserted", "ended"}]
  BY DEF EvidenceInit
<1> QED
  BY <1>1, <1>2, <1>3, <1>4, <1>5 DEF EvidenceInit, EvidenceInv

LEMMA RoomForAll == EvidenceInv /\ ~overlapped => Cardinality(recorded) \in Nat /\ Cardinality(recorded) <= PhotoLimit
<1> SUFFICES ASSUME EvidenceInv, ~overlapped
             PROVE  Cardinality(recorded) \in Nat /\ Cardinality(recorded) <= PhotoLimit
  OBVIOUS
<1>1. Cardinality(recorded) \in Nat
  BY FS_CardinalityType DEF EvidenceInv
<1> QED
  BY <1>1, EvidenceAssumption DEF EvidenceInv, Room

LEMMA EvidenceInductive == EvidenceInv /\ [EvidenceNext]_evidenceVars => EvidenceInv'
<1> SUFFICES ASSUME EvidenceInv, [EvidenceNext]_evidenceVars
             PROVE  EvidenceInv'
  OBVIOUS
<1> USE DEF EvidenceInv
<1>c. Cardinality(recorded) \in Nat
  BY FS_CardinalityType
<1>1. ASSUME NEW p \in Photos, CheckUpload(p)
      PROVE  EvidenceInv'
  <2>1. /\ upload[p] = "none" /\ ~record.finished /\ Cardinality(recorded) < PhotoLimit
        /\ upload' = [upload EXCEPT ![p] = "checked"]
        /\ overlapped' = (overlapped \/ UnderWay # {})
        /\ UNCHANGED <<record, stored, recorded, unaudited, strays, sealed>>
    BY <1>1 DEF CheckUpload, AcceptsEvidence
  <2>2. UnderWay' = UnderWay \cup {p}
    BY <2>1 DEF UnderWay
  <2>3. Stages'
    BY <2>1 DEF Stages
  <2>4. Room'
    BY <2>1, <2>2 DEF Room
  <2> QED
    BY <2>1, <2>2, <2>3, <2>4
<1>2. ASSUME NEW p \in Photos, SavePhoto(p)
      PROVE  EvidenceInv'
  <2>1. /\ upload[p] = "checked" /\ upload' = [upload EXCEPT ![p] = "saved"]
        /\ stored' = stored \cup {p}
        /\ UNCHANGED <<record, strays, sealed, overlapped, recorded, unaudited>>
    BY <1>2 DEF SavePhoto, Proceed
  <2>2. UnderWay' = UnderWay /\ p \in UnderWay
    BY <2>1 DEF UnderWay
  <2> QED
    BY <2>1, <2>2 DEF Stages, Room
<1>3. ASSUME NEW p \in Photos, InsertAttachment(p)
      PROVE  EvidenceInv'
  <2>1. /\ upload[p] = "saved" /\ upload' = [upload EXCEPT ![p] = "inserted"]
        /\ recorded' = recorded \cup {p}
        /\ UNCHANGED <<record, strays, sealed, overlapped, stored, unaudited>>
    BY <1>3 DEF InsertAttachment, Proceed
  <2>2. UnderWay' = UnderWay \ {p} /\ p \in UnderWay /\ p \in stored /\ p \notin recorded
    BY <2>1 DEF UnderWay, Stages
  <2>3. IsFiniteSet(recorded') /\ Cardinality(recorded') = Cardinality(recorded) + 1
    BY <2>1, <2>2, FS_AddElement
  <2>4. Room'
    BY <1>c, <2>1, <2>2, <2>3, EvidenceAssumption DEF Room
  <2>5. Stages'
    BY <2>1 DEF Stages
  <2> QED
    BY <2>1, <2>2, <2>3, <2>4, <2>5
<1>4. ASSUME NEW p \in Photos, InsertFails(p)
      PROVE  EvidenceInv'
  <2>1. /\ upload[p] = "saved" /\ upload' = [upload EXCEPT ![p] = "ended"]
        /\ stored' = stored \ {p}
        /\ UNCHANGED <<record, strays, sealed, overlapped, recorded, unaudited>>
    BY <1>4 DEF InsertFails, Proceed
  <2>2. UnderWay' = UnderWay \ {p} /\ p \in UnderWay /\ p \notin recorded
    BY <2>1 DEF UnderWay, Stages
  <2>3. Room'
    BY <1>c, <2>1, <2>2, EvidenceAssumption DEF Room
  <2>4. Stages'
    BY <2>1 DEF Stages
  <2> QED
    BY <2>1, <2>2, <2>3, <2>4
<1>5. ASSUME NEW p \in Photos, AuditUpload(p)
      PROVE  EvidenceInv'
  <2>1. /\ upload[p] = "inserted" /\ upload' = [upload EXCEPT ![p] = "ended"]
        /\ UNCHANGED <<record, strays, sealed, overlapped, stored, recorded, unaudited>>
    BY <1>5 DEF AuditUpload, Proceed
  <2>2. UnderWay' = UnderWay
    BY <2>1 DEF UnderWay
  <2> QED
    BY <2>1, <2>2 DEF Stages, Room
<1>6. ASSUME NEW p \in Photos, AuditFails(p)
      PROVE  EvidenceInv'
  <2>1. /\ upload[p] = "inserted" /\ upload' = [upload EXCEPT ![p] = "ended"]
        /\ stored' = stored \ {p} /\ unaudited' = unaudited \cup {p}
        /\ UNCHANGED <<record, strays, sealed, overlapped, recorded>>
    BY <1>6 DEF AuditFails, Proceed
  <2>2. UnderWay' = UnderWay
    BY <2>1 DEF UnderWay
  <2> QED
    BY <2>1, <2>2 DEF Stages, Room
<1>7. CASE Crash
  <2>1. /\ strays' = strays \cup {p \in Photos : upload[p] = "saved"}
        /\ upload' = [p \in Photos |-> IF upload[p] = "none" THEN "none" ELSE "ended"]
        /\ UNCHANGED <<record, stored, recorded, unaudited, sealed, overlapped>>
    BY <1>7 DEF Crash
  <2>2. UnderWay' = {}
    BY <2>1 DEF UnderWay
  <2>3. stored \ recorded \subseteq strays'
    BY <2>1 DEF UnderWay, Stages
  <2>4. Room'
    BY <1>c, <2>1, <2>2, EvidenceAssumption DEF Room
  <2>5. Stages'
    BY <2>1 DEF Stages
  <2> QED
    BY <2>1, <2>2, <2>3, <2>4, <2>5
<1>8. CASE FinishRecord
  <2>1. sealed' = recorded \cup UnderWay
        /\ UNCHANGED <<upload, stored, recorded, unaudited, strays, overlapped>>
    BY <1>8 DEF FinishRecord
  <2>2. UnderWay' = UnderWay
    BY <2>1 DEF UnderWay
  <2> QED
    BY <2>1, <2>2 DEF Stages, Room
<1>9. CASE ReopenRecord
  <2>1. /\ record' = [record EXCEPT !.finished = FALSE] /\ record.finished
        /\ UNCHANGED <<upload, stored, recorded, unaudited, strays, sealed, overlapped>>
    BY <1>9 DEF ReopenRecord
  <2>2. UnderWay' = UnderWay
    BY <2>1 DEF UnderWay
  <2> QED
    BY <2>1, <2>2 DEF Stages, Room
<1>10. CASE UNCHANGED evidenceVars
  <2>1. UnderWay' = UnderWay
    BY <1>10 DEF evidenceVars, UnderWay
  <2> QED
    BY <1>10, <2>1 DEF evidenceVars, Stages, Room
<1> QED
  BY <1>1, <1>2, <1>3, <1>4, <1>5, <1>6, <1>7, <1>8, <1>9, <1>10 DEF EvidenceNext

(***************************************************************************)
(* Whatever fails and whenever the process dies, rows and files correspond *)
(* but for the two losses the code has, a finished record is sealed, and   *)
(* the limit is kept while uploads come one at a time.                     *)
(***************************************************************************)
THEOREM EvidenceIsKept == EvidenceSpec => []EvidenceHolds
<1>1. EvidenceInv => EvidenceHolds
  BY RoomForAll DEF EvidenceInv, EvidenceHolds
<1> QED
  BY <1>1, EvidenceBegins, EvidenceInductive, PTL DEF EvidenceSpec

-----------------------------------------------------------------------------
(* Checklist templates *)

TemplateRows == [row : {"NONE", "LIVE"}, active : BOOLEAN, default : BOOLEAN]
TemplateChanges == [op : ChangeOps \cup {"none"}, at : {"idle", "read", "clearing", "cleared"},
                    template : Templates \cup {NoTemplate}, rows : SUBSET Templates, missed : BOOLEAN]

\* What a call read is still so, as long as no other has ended since; one that
\* is changing the default has every default there is.
ChangeSound(k) ==
    /\ k.op # "none" => k.template \in Templates
    /\ k.at \in {"clearing", "cleared"} => k.op = "setChecklistTemplateDefault"
    /\ ~k.missed =>
         /\ k.op = "setChecklistTemplateActive" => ~template[k.template].default
         /\ k.op = "setChecklistTemplateDefault" =>
              /\ template[k.template].active
              /\ k.at \in {"clearing", "cleared"} => k.rows = Defaults
         /\ k.op = "removeChecklistItem" => k.template \notin used

TemplatesInv ==
    /\ template \in [Templates -> TemplateRows] /\ change \in [TemplateCalls -> TemplateChanges]
    /\ check \in [Templates -> {"none", "listed", "removed"}] /\ used \subseteq Templates
    /\ crossedChanges \in Nat
    /\ \A t \in Templates : template[t].active => template[t].row = "LIVE"
    /\ crossedChanges = 0 =>
         /\ \A t, o \in Defaults : t = o
         /\ \A t \in Defaults : template[t].active
         /\ \A t \in used : check[t] = "listed"
         /\ \A c \in TemplateCalls : ChangeSound(change[c])

LEMMA TemplatesBegin == TemplatesInit => TemplatesInv
BY DEF TemplatesInit, TemplatesInv, TemplateRows, NoRow, TemplateChanges, NoChange, Defaults, ChangeSound

\* A call reads; nothing is written.
LEMMA TemplateRead ==
    ASSUME TemplatesInv, NEW c \in TemplateCalls, NEW k \in TemplateChanges,
           crossedChanges = 0 => ChangeSound(k),
           change' = [change EXCEPT ![c] = k],
           UNCHANGED <<template, check, used, crossedChanges>>
    PROVE  TemplatesInv'
<1>1. change' \in [TemplateCalls -> TemplateChanges]
  BY DEF TemplatesInv
<1>2. ASSUME crossedChanges = 0, NEW d \in TemplateCalls
      PROVE  ChangeSound(change'[d])
  BY <1>2 DEF TemplatesInv
<1>3. Defaults' = Defaults
  BY DEF Defaults
<1>4. ASSUME crossedChanges = 0, NEW d \in TemplateCalls
      PROVE  ChangeSound(change[d])'
  BY <1>2, <1>3, <1>4 DEF ChangeSound
<1> QED
  BY <1>1, <1>3, <1>4 DEF TemplatesInv

\* A call begins by reading its template.
LEMMA TemplateReadFirst ==
    ASSUME TemplatesInv, NEW c \in TemplateCalls, NEW t \in Templates, NEW op \in ChangeOps,
           op = "setChecklistTemplateActive" => ~template[t].default,
           op = "setChecklistTemplateDefault" => template[t].active,
           op = "removeChecklistItem" => t \notin used,
           ReadTemplate(c, t, op)
    PROVE  TemplatesInv'
<1> DEFINE k == [NoChange EXCEPT !.op = op, !.at = "read", !.template = t]
<1>1. k \in TemplateChanges /\ k.op = op /\ k.at = "read" /\ k.template = t
  BY DEF TemplateChanges, NoChange
<1>2. change' = [change EXCEPT ![c] = k] /\ UNCHANGED <<template, check, used, crossedChanges>>
  BY DEF ReadTemplate
<1> HIDE DEF k
<1>3. ChangeSound(k)
  BY <1>1 DEF ChangeSound
<1> QED
  BY <1>1, <1>2, <1>3, TemplateRead

\* A call ends: whatever the others have read, they have missed it.
LEMMA TemplateWritten ==
    ASSUME TemplatesInv, NEW c \in TemplateCalls, ChangeEnds(c),
           template' \in [Templates -> TemplateRows], UNCHANGED used,
           \A t \in Templates : template'[t].active => template'[t].row = "LIVE",
           check' \in [Templates -> {"none", "listed", "removed"}],
           crossedChanges = 0 /\ ~change[c].missed =>
              /\ \A t, o \in Defaults' : t = o
              /\ \A t \in Defaults' : template'[t].active
              /\ \A t \in used : check'[t] = "listed"
    PROVE  TemplatesInv'
<1>1. change \in [TemplateCalls -> TemplateChanges] /\ crossedChanges \in Nat
  BY DEF TemplatesInv
<1>2. ASSUME NEW d \in TemplateCalls
      PROVE  \E k \in TemplateChanges : /\ change'[d] = k
                                        /\ k = NoChange \/ (d # c /\ k = [change[d] EXCEPT !.missed = TRUE])
  <2>1. NoChange \in TemplateChanges /\ [change[d] EXCEPT !.missed = TRUE] \in TemplateChanges
    BY <1>1 DEF NoChange, TemplateChanges
  <2> QED
    BY <2>1 DEF ChangeEnds
<1>3. change' \in [TemplateCalls -> TemplateChanges]
  BY <1>2 DEF ChangeEnds
<1>4. /\ crossedChanges' \in Nat
      /\ crossedChanges' = 0 => crossedChanges = 0 /\ ~change[c].missed
  BY <1>1 DEF ChangeEnds
<1>5. ASSUME crossedChanges' = 0, NEW d \in TemplateCalls
      PROVE  ChangeSound(change[d])'
  <2>1. PICK k \in TemplateChanges :
            change'[d] = k /\ (k = NoChange \/ (d # c /\ k = [change[d] EXCEPT !.missed = TRUE]))
    BY <1>2
  <2>2. CASE k = NoChange
    BY <2>1, <2>2 DEF ChangeSound, NoChange, ChangeOps
  <2>3. CASE k = [change[d] EXCEPT !.missed = TRUE]
    <3>1. k.missed /\ k.op = change[d].op /\ k.at = change[d].at /\ k.template = change[d].template
      BY <1>1, <2>3 DEF TemplateChanges
    <3>2. ChangeSound(change[d])
      BY <1>4, <1>5 DEF TemplatesInv
    <3> QED
      BY <2>1, <3>1, <3>2 DEF ChangeSound
  <2> QED
    BY <2>1, <2>2, <2>3
<1> QED
  BY <1>3, <1>4, <1>5 DEF TemplatesInv

LEMMA TemplatesReads ==
    ASSUME TemplatesInv, NEW c \in TemplateCalls,
           \/ \E t \in Templates : ReadForDeactivate(c, t) \/ ReadForDefault(c, t) \/ ReadForRemoveItem(c, t)
           \/ StartClearing(c) \/ ClearDefaults(c)
    PROVE  TemplatesInv'
<1>1. ASSUME NEW t \in Templates, ReadForDeactivate(c, t)
      PROVE  TemplatesInv'
  BY <1>1, TemplateReadFirst DEF ReadForDeactivate, ChangeOps
<1>2. ASSUME NEW t \in Templates, ReadForDefault(c, t)
      PROVE  TemplatesInv'
  BY <1>2, TemplateReadFirst DEF ReadForDefault, ChangeOps
<1>3. ASSUME NEW t \in Templates, ReadForRemoveItem(c, t)
      PROVE  TemplatesInv'
  BY <1>3, TemplateReadFirst DEF ReadForRemoveItem, ChangeOps
<1>4. PICK k \in TemplateChanges : k = change[c] /\ (crossedChanges = 0 => ChangeSound(k))
  BY DEF TemplatesInv
<1>5. CASE StartClearing(c)
  <2> DEFINE m == [k EXCEPT !.at = "clearing", !.rows = Defaults]
  <2>1. /\ m \in TemplateChanges /\ m.op = k.op /\ m.at = "clearing" /\ m.rows = Defaults
        /\ m.template = k.template /\ m.missed = k.missed
    BY DEF TemplateChanges, Defaults
  <2>2. /\ change' = [change EXCEPT ![c] = m] /\ k.op = "setChecklistTemplateDefault"
        /\ UNCHANGED <<template, check, used, crossedChanges>>
    BY <1>4, <1>5 DEF StartClearing, TemplatesInv
  <2> HIDE DEF m
  <2>3. crossedChanges = 0 => ChangeSound(m)
    BY <1>4, <2>1, <2>2 DEF ChangeSound
  <2> QED
    BY <2>1, <2>2, <2>3, TemplateRead
<1>6. CASE ClearDefaults(c)
  <2> DEFINE m == [k EXCEPT !.at = "cleared", !.rows = k.rows \cap Defaults]
  <2>1. /\ m \in TemplateChanges /\ m.op = k.op /\ m.at = "cleared" /\ m.rows = k.rows \cap Defaults
        /\ m.template = k.template /\ m.missed = k.missed
    BY DEF TemplateChanges
  <2>2. /\ change' = [change EXCEPT ![c] = m] /\ k.at = "clearing"
        /\ UNCHANGED <<template, check, used, crossedChanges>>
    BY <1>4, <1>6 DEF ClearDefaults, TemplatesInv
  <2> HIDE DEF m
  <2>3. crossedChanges = 0 => ChangeSound(m)
    BY <1>4, <2>1, <2>2 DEF ChangeSound
  <2> QED
    BY <2>1, <2>2, <2>3, TemplateRead
<1> QED
  BY <1>1, <1>2, <1>3, <1>5, <1>6

LEMMA TemplatesWrites ==
    ASSUME TemplatesInv, NEW c \in TemplateCalls,
           SetChecklistTemplateActive(c) \/ SetChecklistTemplateDefault(c) \/ RemoveChecklistItem(c)
    PROVE  TemplatesInv'
<1>1. PICK k \in TemplateChanges : k = change[c] /\ (crossedChanges = 0 => ChangeSound(k))
  BY DEF TemplatesInv
<1>2. /\ template \in [Templates -> TemplateRows] /\ check \in [Templates -> {"none", "listed", "removed"}]
      /\ used \subseteq Templates
  BY DEF TemplatesInv
<1>3. CASE SetChecklistTemplateActive(c)
  <2>1. /\ template' = [template EXCEPT ![k.template].active = FALSE] /\ ChangeEnds(c)
        /\ UNCHANGED <<check, used>> /\ k.op = "setChecklistTemplateActive"
    BY <1>1, <1>3 DEF SetChecklistTemplateActive
  <2>2. template' \in [Templates -> TemplateRows] /\ Defaults' = Defaults
    BY <1>2, <2>1 DEF TemplateRows, Defaults
  <2>5. \A t \in Templates : template'[t].active => template'[t].row = "LIVE"
    BY <1>2, <2>1 DEF TemplatesInv, TemplateRows
  <2>3. ASSUME crossedChanges = 0, ~k.missed, NEW t \in Defaults'
        PROVE  template'[t].active
    <3>1. t # k.template
      BY <1>1, <2>1, <2>2, <2>3 DEF ChangeSound, Defaults
    <3> QED
      BY <1>2, <2>1, <2>2, <2>3, <3>1 DEF TemplatesInv, Defaults
  <2>4. crossedChanges = 0 => /\ \A t, o \in Defaults' : t = o
                              /\ \A t \in used : check'[t] = "listed"
    BY <2>1, <2>2 DEF TemplatesInv
  <2> QED
    BY <1>1, <1>2, <2>1, <2>2, <2>3, <2>4, <2>5, TemplateWritten
<1>4. CASE SetChecklistTemplateDefault(c)
  <2>1. /\ template' = [t \in Templates |->
                          IF t = k.template THEN [template[t] EXCEPT !.default = TRUE]
                          ELSE IF t \in k.rows THEN [template[t] EXCEPT !.default = FALSE]
                          ELSE template[t]]
        /\ ChangeEnds(c) /\ UNCHANGED <<check, used>> /\ k.at = "cleared"
    BY <1>1, <1>4 DEF SetChecklistTemplateDefault
  <2>2. ASSUME NEW t \in Templates
        PROVE  \E row \in TemplateRows :
                  /\ row = template'[t] /\ row.active = template[t].active /\ row.row = template[t].row
                  /\ row.default = IF t = k.template THEN TRUE
                                   ELSE IF t \in k.rows THEN FALSE ELSE template[t].default
    <3>1. PICK old \in TemplateRows : old = template[t]
      BY <1>2
    <3>2. [old EXCEPT !.default = TRUE] \in TemplateRows /\ [old EXCEPT !.default = FALSE] \in TemplateRows
      BY DEF TemplateRows
    <3> QED
      BY <2>1, <3>1, <3>2 DEF TemplateRows
  <2>3. /\ template' \in [Templates -> TemplateRows]
        /\ \A t \in Templates : template'[t].active => template'[t].row = "LIVE"
    BY <2>1, <2>2 DEF TemplatesInv
  <2>4. ASSUME crossedChanges = 0, ~k.missed, NEW t \in Defaults'
        PROVE  t = k.template /\ template'[t].active
    <3>1. template[k.template].active /\ k.rows = Defaults
      BY <1>1, <2>1, <2>4 DEF ChangeSound
    <3>2. t \in Templates /\ template'[t].default
      BY <2>4 DEF Defaults
    <3>3. t = k.template
      BY <2>2, <3>1, <3>2 DEF Defaults
    <3> QED
      BY <2>2, <3>1, <3>2, <3>3
  <2>5. crossedChanges = 0 => \A t \in used : check'[t] = "listed"
    BY <2>1 DEF TemplatesInv
  <2> QED
    BY <1>1, <1>2, <2>1, <2>3, <2>4, <2>5, TemplateWritten
<1>5. CASE RemoveChecklistItem(c)
  <2>1. /\ check' = [check EXCEPT ![k.template] = "removed"] /\ ChangeEnds(c)
        /\ UNCHANGED <<template, used>> /\ k.op = "removeChecklistItem"
    BY <1>1, <1>5 DEF RemoveChecklistItem
  <2>2. check' \in [Templates -> {"none", "listed", "removed"}] /\ Defaults' = Defaults
    BY <1>2, <2>1 DEF Defaults
  <2>5. \A t \in Templates : template'[t].active => template'[t].row = "LIVE"
    BY <2>1 DEF TemplatesInv
  <2>3. ASSUME crossedChanges = 0, ~k.missed, NEW t \in used
        PROVE  check'[t] = "listed"
    <3>1. t # k.template
      BY <1>1, <2>1, <2>3 DEF ChangeSound
    <3> QED
      BY <1>2, <2>1, <2>3, <3>1 DEF TemplatesInv
  <2>4. crossedChanges = 0 => /\ \A t, o \in Defaults' : t = o
                              /\ \A t \in Defaults' : template'[t].active
    BY <2>1, <2>2 DEF TemplatesInv
  <2> QED
    BY <1>1, <1>2, <2>1, <2>2, <2>3, <2>4, <2>5, TemplateWritten
<1> QED
  BY <1>3, <1>4, <1>5

\* A template is offered that was not: created, or active again.
LEMMA TemplateOffered ==
    ASSUME TemplatesInv, NEW t \in Templates, NEW r \in TemplateRows,
           r.active, r.row = "LIVE", crossedChanges = 0 => r.default = template[t].default,
           template' = [template EXCEPT ![t] = r],
           UNCHANGED <<check, used, change, crossedChanges>>
    PROVE  TemplatesInv'
<1>1. template \in [Templates -> TemplateRows] /\ template' \in [Templates -> TemplateRows]
  BY DEF TemplatesInv
<1>2. crossedChanges = 0 => Defaults' = Defaults
  BY <1>1 DEF Defaults
<1>3. \A o \in Templates : template[o].active => template'[o].active
  BY <1>1
<1>4. ASSUME crossedChanges = 0, NEW c \in TemplateCalls
      PROVE  ChangeSound(change[c])'
  <2>1. ChangeSound(change[c]) /\ change'[c] = change[c] /\ used' = used
    BY <1>4 DEF TemplatesInv
  <2>2. \A o \in Templates : template'[o].default = template[o].default
    BY <1>1, <1>4
  <2> QED
    BY <1>2, <1>3, <1>4, <2>1, <2>2 DEF ChangeSound, ChangeOps
<1>5. \A o \in Templates : template'[o].active => template'[o].row = "LIVE"
  BY <1>1 DEF TemplatesInv
<1>6. crossedChanges = 0 => /\ \A a, o \in Defaults' : a = o
                            /\ \A o \in Defaults' : template'[o].active
  BY <1>2, <1>3 DEF TemplatesInv, Defaults
<1> QED
  BY <1>1, <1>4, <1>5, <1>6 DEF TemplatesInv

LEMMA ChecklistCopied ==
    ASSUME TemplatesInv, NEW t \in Templates, CopyChecklist(t)
    PROVE  TemplatesInv'
<1>1. /\ change \in [TemplateCalls -> TemplateChanges] /\ used' = used \cup {t} /\ check[t] = "listed"
      /\ change' = [c \in TemplateCalls |->
                      IF change[c].op = "removeChecklistItem" /\ change[c].template = t
                      THEN [change[c] EXCEPT !.missed = TRUE] ELSE change[c]]
      /\ UNCHANGED <<template, check, crossedChanges>>
  BY DEF CopyChecklist, TemplatesInv
<1>2. ASSUME NEW c \in TemplateCalls
      PROVE  \E k \in TemplateChanges :
                /\ change'[c] = k /\ k.op = change[c].op /\ k.template = change[c].template
                /\ k.at = change[c].at /\ k.rows = change[c].rows
                /\ ~k.missed => /\ ~change[c].missed
                                /\ k.op = "removeChecklistItem" => k.template # t
  <2>1. PICK k \in TemplateChanges : k = change[c]
    BY <1>1
  <2> DEFINE m == [k EXCEPT !.missed = TRUE]
  <2>2. /\ m \in TemplateChanges /\ m.op = k.op /\ m.template = k.template /\ m.at = k.at
        /\ m.rows = k.rows /\ m.missed
    BY DEF TemplateChanges
  <2>3. change'[c] = IF k.op = "removeChecklistItem" /\ k.template = t THEN m ELSE k
    BY <1>1, <2>1
  <2> HIDE DEF m
  <2> QED
    BY <2>1, <2>2, <2>3
<1>3. change' \in [TemplateCalls -> TemplateChanges]
  BY <1>1, <1>2
<1>4. Defaults' = Defaults
  BY <1>1 DEF Defaults
<1>5. ASSUME crossedChanges = 0, NEW c \in TemplateCalls
      PROVE  ChangeSound(change[c])'
  <2>1. PICK k \in TemplateChanges :
            /\ change'[c] = k /\ k.op = change[c].op /\ k.template = change[c].template
            /\ k.at = change[c].at /\ k.rows = change[c].rows
            /\ ~k.missed => /\ ~change[c].missed
                            /\ k.op = "removeChecklistItem" => k.template # t
    BY <1>2
  <2>2. ChangeSound(change[c])
    BY <1>5 DEF TemplatesInv
  <2> QED
    BY <1>1, <1>4, <2>1, <2>2 DEF ChangeSound
<1> QED
  BY <1>1, <1>3, <1>4, <1>5 DEF TemplatesInv

LEMMA TemplatesInductive == TemplatesInv /\ [TemplatesNext]_templateVars => TemplatesInv'
<1> SUFFICES ASSUME TemplatesInv, [TemplatesNext]_templateVars
             PROVE  TemplatesInv'
  OBVIOUS
<1>1. CASE UNCHANGED templateVars
  BY <1>1 DEF templateVars, TemplatesInv, ChangeSound, Defaults
<1>2. ASSUME NEW c \in TemplateCalls,
             \/ \E t \in Templates : ReadForDeactivate(c, t) \/ ReadForDefault(c, t) \/ ReadForRemoveItem(c, t)
             \/ SetChecklistTemplateActive(c) \/ StartClearing(c) \/ ClearDefaults(c)
             \/ SetChecklistTemplateDefault(c) \/ RemoveChecklistItem(c)
      PROVE  TemplatesInv'
  BY <1>2, TemplatesReads, TemplatesWrites
<1>3. ASSUME NEW t \in Templates, CreateChecklistTemplate(t) \/ Activate(t)
      PROVE  TemplatesInv'
  <2>1. PICK old \in TemplateRows : old = template[t]
    BY DEF TemplatesInv
  <2>2. CASE CreateChecklistTemplate(t)
    <3> DEFINE row == [row |-> "LIVE", active |-> TRUE, default |-> FALSE]
    <3>1. row \in TemplateRows /\ row.active /\ ~row.default /\ row.row = "LIVE"
      BY DEF TemplateRows
    <3>2. /\ template' = [template EXCEPT ![t] = row] /\ old.row = "NONE"
          /\ UNCHANGED <<check, used, change, crossedChanges>>
      BY <2>1, <2>2 DEF CreateChecklistTemplate
    <3>3. crossedChanges = 0 => ~old.default
      BY <2>1, <3>2 DEF TemplatesInv, Defaults
    <3> HIDE DEF row
    <3>4. crossedChanges = 0 => row.default = template[t].default
      BY <2>1, <3>1, <3>3 DEF TemplateRows
    <3> QED
      BY <3>1, <3>2, <3>4, TemplateOffered
  <2>3. CASE Activate(t)
    <3> DEFINE row == [old EXCEPT !.active = TRUE]
    <3>1. row \in TemplateRows /\ row.active /\ row.default = old.default /\ row.row = old.row
      BY DEF TemplateRows
    <3>2. /\ template' = [template EXCEPT ![t] = row] /\ old.row = "LIVE"
          /\ UNCHANGED <<check, used, change, crossedChanges>>
      BY <2>1, <2>3 DEF Activate
    <3> HIDE DEF row
    <3> QED
      BY <2>1, <3>1, <3>2, TemplateOffered
  <2> QED
    BY <1>3, <2>2, <2>3
<1>4. ASSUME NEW t \in Templates, AddChecklistItem(t)
      PROVE  TemplatesInv'
  BY <1>4 DEF AddChecklistItem, TemplatesInv, ChangeSound, Defaults
<1>5. ASSUME NEW t \in Templates \cup {NoTemplate}, ChooseForKit(t)
      PROVE  TemplatesInv'
  BY <1>5 DEF ChooseForKit, TemplatesInv, ChangeSound, Defaults
<1>6. ASSUME NEW t \in Templates, CopyChecklist(t)
      PROVE  TemplatesInv'
  BY <1>6, ChecklistCopied
<1> QED
  BY <1>1, <1>2, <1>3, <1>4, <1>5, <1>6 DEF TemplatesNext, TemplatesStep

(***************************************************************************)
(* setChecklistTemplateDefault, setChecklistTemplateActive and              *)
(* removeChecklistItem, however many calls there are: while none of them    *)
(* crosses another, there is one default at most, it is offered, and no     *)
(* check that a booking has copied leaves its template.                     *)
(***************************************************************************)
THEOREM DefaultsAreUsable == TemplatesSpec => []DefaultIsUsable
<1>1. TemplatesInv => DefaultIsUsable
  BY DEF TemplatesInv, DefaultIsUsable, TemplatesForKit
<1> QED
  BY <1>1, TemplatesBegin, TemplatesInductive, PTL DEF TemplatesSpec

-----------------------------------------------------------------------------
(* The sign-in limiter *)

\* A set of numbers has a least one: what every induction here rests on.
LEMMA LeastNumber ==
    ASSUME NEW T, T \subseteq Nat, T # {}
    PROVE  \E x \in T : \A y \in T : x <= y
<1>1. PICK x \in T : \A y \in T : ~(<<y, x>> \in OpToRel(<, Nat))
  BY NatLessThanWellFounded, WFMin
<1>2. \A y \in T : ~(y < x)
  BY <1>1 DEF OpToRel
<1> QED
  BY <1>2

\* The filter at work: g[n] is what is kept of the first n instants.
Filters(g, s, cutoff, last) ==
    g = [n \in 0 .. last |-> IF n = 0 THEN <<>>
                             ELSE IF s[n] > cutoff THEN Append(g[n - 1], s[n]) ELSE g[n - 1]]

LEMMA FilterAt ==
    ASSUME NEW s, NEW cutoff, NEW last, NEW g, Filters(g, s, cutoff, last), NEW n \in 0 .. last
    PROVE  g[n] = IF n = 0 THEN <<>> ELSE IF s[n] > cutoff THEN Append(g[n - 1], s[n]) ELSE g[n - 1]
<1> DEFINE F(i) == IF i = 0 THEN <<>> ELSE IF s[i] > cutoff THEN Append(g[i - 1], s[i]) ELSE g[i - 1]
<1>1. g = [i \in 0 .. last |-> F(i)]
  BY DEF Filters
<1>2. g[n] = F(n)
  <2> HIDE DEF F
  <2> QED
    BY <1>1
<1> QED
  BY <1>2

LEMMA FilterGoesOn ==
    ASSUME NEW s, NEW cutoff, NEW m \in Nat, NEW g, Filters(g, s, cutoff, m)
    PROVE  \E h : Filters(h, s, cutoff, m + 1)
<1> DEFINE next == IF s[m + 1] > cutoff THEN Append(g[m], s[m + 1]) ELSE g[m]
           h == [n \in 0 .. m + 1 |-> IF n = m + 1 THEN next ELSE g[n]]
<1>1. h[m + 1] = next /\ \A n \in 0 .. m : h[n] = g[n]
  OBVIOUS
<1>2. \A n \in 0 .. m : g[n] = IF n = 0 THEN <<>>
                               ELSE IF s[n] > cutoff THEN Append(g[n - 1], s[n]) ELSE g[n - 1]
  BY DEF Filters
<1> HIDE DEF next
<1>3. \A n \in 0 .. m + 1 : h[n] = IF n = 0 THEN <<>>
                                   ELSE IF s[n] > cutoff THEN Append(h[n - 1], s[n]) ELSE h[n - 1]
  <2> TAKE n \in 0 .. m + 1
  <2>1. CASE n = m + 1
    BY <1>1, <2>1 DEF next
  <2>2. CASE n \in 0 .. m /\ n = 0
    BY <1>1, <1>2, <2>2
  <2>3. CASE n \in 1 .. m
    <3>1. n - 1 \in 0 .. m /\ n \in 0 .. m /\ n # 0
      BY <2>3
    <3> QED
      BY <1>1, <1>2, <3>1
  <2> QED
    BY <2>1, <2>2, <2>3
<1>4. h = [n \in 0 .. m + 1 |-> h[n]]
  OBVIOUS
<1> HIDE DEF h
<1> QED
  BY <1>3, <1>4 DEF Filters

LEMMA FilterExists ==
    ASSUME NEW s, NEW cutoff, NEW last \in Nat
    PROVE  \E g : Filters(g, s, cutoff, last)
<1> DEFINE T == {m \in Nat : ~ \E g : Filters(g, s, cutoff, m)}
<1>1. SUFFICES ASSUME T # {} PROVE FALSE
  OBVIOUS
<1>2. T \subseteq Nat
  OBVIOUS
<1>3. PICK m \in T : \A k \in T : m <= k
  <2> HIDE DEF T
  <2> QED
    BY <1>1, <1>2, LeastNumber
<1>4. m # 0
  <2>1. Filters([n \in 0 .. 0 |-> <<>>], s, cutoff, 0)
    BY DEF Filters
  <2> QED
    BY <2>1
<1>5. m - 1 \in Nat /\ (m - 1) + 1 = m
  BY <1>4
<1>6. m - 1 \notin T
  <2> HIDE DEF T
  <2> QED
    BY <1>2, <1>3, <1>5
<1>7. PICK g : Filters(g, s, cutoff, m - 1)
  BY <1>5, <1>6
<1> QED
  BY <1>5, <1>7, FilterGoesOn

LEMMA FilterIsKept ==
    ASSUME NEW s \in Seq(Nat), NEW at
    PROVE  \E g : Filters(g, s, at - Window, Len(s)) /\ RecentAt(s, at) = g[Len(s)]
<1> DEFINE g == CHOOSE f : Filters(f, s, at - Window, Len(s))
<1>1. Filters(g, s, at - Window, Len(s))
  BY FilterExists
<1>2. RecentAt(s, at) = g[Len(s)]
  BY DEF RecentAt, Filters
<1> QED
  BY <1>1, <1>2

\* Two runs of the filter over sequences that begin alike.
LEMMA FilterIsUnique ==
    ASSUME NEW s, NEW u, NEW cutoff, NEW last \in Nat, NEW m \in Nat, m <= last,
           \A n \in 1 .. m : s[n] = u[n],
           NEW g, Filters(g, s, cutoff, last), NEW h, Filters(h, u, cutoff, m)
    PROVE  g[m] = h[m]
<1> DEFINE T == {n \in 0 .. m : g[n] # h[n]}
<1>1. SUFFICES ASSUME T # {} PROVE FALSE
  OBVIOUS
<1>2. T \subseteq Nat
  OBVIOUS
<1>3. PICK n \in T : \A k \in T : n <= k
  <2> HIDE DEF T
  <2> QED
    BY <1>1, <1>2, LeastNumber
<1>4. /\ n \in 0 .. last
      /\ g[n] = IF n = 0 THEN <<>> ELSE IF s[n] > cutoff THEN Append(g[n - 1], s[n]) ELSE g[n - 1]
      /\ h[n] = IF n = 0 THEN <<>> ELSE IF u[n] > cutoff THEN Append(h[n - 1], u[n]) ELSE h[n - 1]
  BY FilterAt
<1>5. n # 0
  BY <1>4
<1>6. n - 1 \in 0 .. m /\ n - 1 \notin T
  <2>1. n - 1 \in 0 .. m /\ n \in Nat
    BY <1>5
  <2> HIDE DEF T
  <2> QED
    BY <1>2, <1>3, <2>1
<1>7. g[n - 1] = h[n - 1]
  BY <1>6
<1> QED
  BY <1>4, <1>5, <1>7

LEMMA RecentOfNothing == ASSUME NEW at PROVE RecentAt(<<>>, at) = <<>>
<1>1. <<>> \in Seq(Nat) /\ Len(<<>>) = 0
  OBVIOUS
<1>2. PICK g : Filters(g, <<>>, at - Window, 0) /\ RecentAt(<<>>, at) = g[0]
  BY <1>1, FilterIsKept
<1> QED
  BY <1>2 DEF Filters

LEMMA RecentOfOneMore ==
    ASSUME NEW s \in Seq(Nat), NEW x \in Nat, NEW at
    PROVE  RecentAt(Append(s, x), at)
             = IF x > at - Window THEN Append(RecentAt(s, at), x) ELSE RecentAt(s, at)
<1> DEFINE u == Append(s, x)
<1>1. /\ u \in Seq(Nat) /\ Len(u) = Len(s) + 1 /\ Len(s) \in Nat /\ u[Len(u)] = x
      /\ \A n \in 1 .. Len(s) : u[n] = s[n]
  OBVIOUS
<1> HIDE DEF u
<1>2. PICK g : Filters(g, u, at - Window, Len(u)) /\ RecentAt(u, at) = g[Len(u)]
  BY <1>1, FilterIsKept
<1>3. PICK h : Filters(h, s, at - Window, Len(s)) /\ RecentAt(s, at) = h[Len(s)]
  BY FilterIsKept
<1>4. g[Len(s)] = h[Len(s)]
  BY <1>1, <1>2, <1>3, FilterIsUnique
<1>5. g[Len(u)] = IF x > at - Window THEN Append(g[Len(s)], x) ELSE g[Len(s)]
  BY <1>1, <1>2, FilterAt
<1> QED
  BY <1>2, <1>3, <1>4, <1>5 DEF u
\* What the filter does to a sequence: it keeps what counts, in one pass or in
\* two, and the first instant it drops shortens it.
FilterSound(s) ==
    \A t \in Int :
        /\ RecentAt(s, t) \in Seq(Nat) /\ Len(RecentAt(s, t)) <= Len(s)
        /\ \A n \in 1 .. Len(RecentAt(s, t)) :
              /\ RecentAt(s, t)[n] > t - Window
              /\ \E m \in 1 .. Len(s) : RecentAt(s, t)[n] = s[m]
        /\ \A later \in Int : later >= t => RecentAt(RecentAt(s, t), later) = RecentAt(s, later)
        /\ (\A m \in 1 .. Len(s) : s[m] <= t - Window) => RecentAt(s, t) = <<>>
        /\ s # <<>> /\ s[1] <= t - Window => Len(RecentAt(s, t)) < Len(s)

LEMMA FilterSoundFurther ==
    ASSUME NEW s \in Seq(Nat), FilterSound(s), NEW x \in Nat
    PROVE  FilterSound(Append(s, x))
<1> DEFINE u == Append(s, x)
<1>0. Window \in Nat
  BY LimiterAssumption
<1>1. /\ u \in Seq(Nat) /\ Len(u) = Len(s) + 1 /\ Len(s) \in Nat /\ u[Len(u)] = x
      /\ \A n \in 1 .. Len(s) : u[n] = s[n]
  OBVIOUS
<1>2. u # <<>> /\ (s = <<>> => Len(s) = 0) /\ (s # <<>> => u[1] = s[1]) /\ (s = <<>> => u[1] = x)
  OBVIOUS
<1>3. \A at \in Int : RecentAt(u, at) = IF x > at - Window THEN Append(RecentAt(s, at), x) ELSE RecentAt(s, at)
  BY RecentOfOneMore
<1> HIDE DEF u
<1> SUFFICES ASSUME NEW t \in Int
             PROVE  /\ RecentAt(u, t) \in Seq(Nat) /\ Len(RecentAt(u, t)) <= Len(u)
                    /\ \A n \in 1 .. Len(RecentAt(u, t)) :
                          /\ RecentAt(u, t)[n] > t - Window
                          /\ \E m \in 1 .. Len(u) : RecentAt(u, t)[n] = u[m]
                    /\ \A later \in Int : later >= t => RecentAt(RecentAt(u, t), later) = RecentAt(u, later)
                    /\ (\A m \in 1 .. Len(u) : u[m] <= t - Window) => RecentAt(u, t) = <<>>
                    /\ u[1] <= t - Window => Len(RecentAt(u, t)) < Len(u)
  BY <1>2 DEF FilterSound, u
<1> DEFINE r == RecentAt(s, t)  q == RecentAt(u, t)
<1>4. /\ r \in Seq(Nat) /\ Len(r) <= Len(s)
      /\ \A n \in 1 .. Len(r) : r[n] > t - Window /\ \E m \in 1 .. Len(s) : r[n] = s[m]
      /\ \A later \in Int : later >= t => RecentAt(r, later) = RecentAt(s, later)
      /\ (\A m \in 1 .. Len(s) : s[m] <= t - Window) => r = <<>>
      /\ s # <<>> /\ s[1] <= t - Window => Len(r) < Len(s)
  BY DEF FilterSound
<1>5. q = IF x > t - Window THEN Append(r, x) ELSE r
  BY <1>3
<1>6. \A later \in Int : RecentAt(Append(r, x), later)
                           = IF x > later - Window THEN Append(RecentAt(r, later), x) ELSE RecentAt(r, later)
  BY <1>4, RecentOfOneMore
<1> HIDE DEF q, r
<1>7. CASE x > t - Window
  <2>1. q = Append(r, x)
    BY <1>5, <1>7
  <2>2. /\ q \in Seq(Nat) /\ Len(q) = Len(r) + 1 /\ q[Len(q)] = x
        /\ \A n \in 1 .. Len(r) : q[n] = r[n]
    BY <1>4, <2>1
  <2>3. Len(r) \in Nat
    BY <1>4
  <2>4. ASSUME NEW n \in 1 .. Len(q)
        PROVE  q[n] > t - Window /\ \E m \in 1 .. Len(u) : q[n] = u[m]
    <3>1. CASE n = Len(q)
      BY <1>1, <1>7, <2>2, <3>1
    <3>2. CASE n # Len(q)
      <4>1. n \in 1 .. Len(r)
        BY <2>2, <2>3, <3>2
      <4>2. PICK m \in 1 .. Len(s) : r[n] = s[m]
        BY <1>4, <4>1
      <4>3. m \in 1 .. Len(u) /\ u[m] = s[m]
        BY <1>1, <4>2
      <4> QED
        BY <1>4, <2>2, <4>1, <4>2, <4>3
    <3> QED
      BY <3>1, <3>2
  <2>5. ASSUME NEW later \in Int, later >= t
        PROVE  RecentAt(q, later) = RecentAt(u, later)
    BY <1>3, <1>4, <1>6, <2>1, <2>5
  <2>6. ~(\A m \in 1 .. Len(u) : u[m] <= t - Window)
    <3>1. Len(u) \in 1 .. Len(u)
      BY <1>1
    <3> QED
      BY <1>0, <1>1, <1>7, <3>1
  <2>7. u[1] <= t - Window => Len(q) < Len(u)
    <3>1. s = <<>> => ~(u[1] <= t - Window)
      BY <1>0, <1>2, <1>7
    <3> QED
      BY <1>1, <1>2, <1>4, <2>2, <2>3, <3>1
  <2> QED
    BY <1>1, <1>4, <2>2, <2>3, <2>4, <2>5, <2>6, <2>7 DEF q
<1>8. CASE ~(x > t - Window)
  <2>1. q = r
    BY <1>5, <1>8
  <2>2. \A m \in 1 .. Len(s) : m \in 1 .. Len(u) /\ u[m] = s[m]
    BY <1>1
  <2>3. ASSUME NEW later \in Int, later >= t
        PROVE  RecentAt(r, later) = RecentAt(u, later)
    BY <1>0, <1>3, <1>4, <1>8, <2>3
  <2>4. Len(r) < Len(u) /\ Len(r) \in Nat
    BY <1>1, <1>4
  <2> QED
    BY <1>1, <1>4, <2>1, <2>2, <2>3, <2>4 DEF q
<1> QED
  BY <1>7, <1>8 DEF q

LEMMA FilterIsSound == \A s \in Seq(Nat) : FilterSound(s)
<1> DEFINE Failing == {s \in Seq(Nat) : ~FilterSound(s)}
           T == {Len(s) : s \in Failing}
<1>1. SUFFICES ASSUME Failing # {} PROVE FALSE
  OBVIOUS
<1>2. T \subseteq Nat /\ T # {}
  <2>1. \A s \in Failing : s \in Seq(Nat)
    OBVIOUS
  <2> HIDE DEF Failing
  <2> QED
    BY <1>1, <2>1, LenProperties
<1>3. PICK least \in T : \A k \in T : least <= k
  <2> HIDE DEF T
  <2> QED
    BY <1>2, LeastNumber
<1>4. PICK s \in Failing : Len(s) = least
  BY <1>3
<1>5. CASE s = <<>>
  <2>1. FilterSound(<<>>)
    <3>1. PICK none : none = <<>>
      OBVIOUS
    <3>2. none \in Seq(Nat) /\ Len(none) = 0
      BY <3>1, EmptySeq
    <3>3. \A t \in Int : RecentAt(none, t) = none
      BY <3>1, RecentOfNothing
    <3>4. 1 .. Len(none) = {}
      BY <3>2
    <3>5. ASSUME NEW t \in Int
          PROVE  /\ RecentAt(none, t) \in Seq(Nat) /\ Len(RecentAt(none, t)) <= Len(none)
                 /\ 1 .. Len(RecentAt(none, t)) = {}
                 /\ \A later \in Int : RecentAt(RecentAt(none, t), later) = RecentAt(none, later)
      <4>1. RecentAt(none, t) = none
        BY <3>3
      <4>2. none \in Seq(Nat) /\ Len(none) <= Len(none)
        BY <3>2
      <4> QED
        BY <3>4, <4>1, <4>2
    <3>6. FilterSound(none)
      BY <3>1, <3>3, <3>5 DEF FilterSound
    <3> QED
      BY <3>1, <3>6
  <2> QED
    BY <1>4, <1>5, <2>1
<1>6. CASE s # <<>>
  <2>1. PICK front \in Seq(Nat), x \in Nat : s = Append(front, x)
    BY <1>4, <1>6, SequenceEmptyOrAppend
  <2>2. Len(s) = Len(front) + 1 /\ Len(front) \in Nat
    BY <2>1, AppendProperties
  <2>3. front \notin Failing
    <3>1. front \in Failing => Len(front) \in T
      OBVIOUS
    <3> HIDE DEF Failing, T
    <3> QED
      BY <1>2, <1>3, <1>4, <2>2, <3>1
  <2> QED
    BY <1>4, <2>1, <2>3, FilterSoundFurther
<1> QED
  BY <1>5, <1>6

\* The sign-ins under way with a key.
Pending(k) == {a \in Attempts : k \in attempt[a]}

\* Pruning and sweeping forget no failure that counts now, hence none that
\* counts later; and the sign-ins that were let in before the limit was reached
\* have room.
KeySound(k) ==
    /\ \A n \in 1 .. Len(failures[k]) : failures[k][n] <= clock
    /\ Recent(k) = RecentAt(happened[k], clock)
    /\ Len(Recent(k)) + Cardinality(Pending(k)) < MaxAttempts + Cardinality(Attempts)

LimiterInv ==
    /\ clock \in Nat /\ lastSweep \in Nat
    /\ failures \in [Keys -> Seq(Nat)] /\ happened \in [Keys -> Seq(Nat)]
    /\ attempt \in [Attempts -> SUBSET Keys]
    /\ \A k \in Keys : KeySound(k)

LEMMA PendingIsBounded ==
    ASSUME NEW S \in SUBSET Attempts
    PROVE  IsFiniteSet(S) /\ Cardinality(S) \in Nat /\ Cardinality(S) <= Cardinality(Attempts)
           /\ Cardinality(Attempts) \in Nat
BY LimiterAssumption, FS_Subset, FS_CardinalityType

LEMMA LimitsAreNumbers == MaxAttempts \in Nat /\ MaxAttempts > 0 /\ Window \in Nat /\ Window > 0
BY LimiterAssumption

LEMMA RecentIsSound ==
    ASSUME NEW s \in Seq(Nat), NEW t \in Nat
    PROVE  /\ RecentAt(s, t) \in Seq(Nat) /\ Len(RecentAt(s, t)) \in Nat
           /\ \A n \in 1 .. Len(RecentAt(s, t)) :
                 RecentAt(s, t)[n] > t - Window /\ \E m \in 1 .. Len(s) : RecentAt(s, t)[n] = s[m]
           /\ \A later \in Nat : later >= t =>
                 /\ RecentAt(RecentAt(s, t), later) = RecentAt(s, later)
                 /\ Len(RecentAt(s, later)) <= Len(RecentAt(s, t))
           /\ (\A m \in 1 .. Len(s) : s[m] <= t - Window) => RecentAt(s, t) = <<>>
           /\ s # <<>> /\ s[1] <= t - Window => Len(RecentAt(s, t)) < Len(s)
<1>1. FilterSound(s) /\ t \in Int
  BY FilterIsSound
<1>2. RecentAt(s, t) \in Seq(Nat)
  BY <1>1 DEF FilterSound
<1>3. Len(RecentAt(s, t)) \in Nat
  BY <1>2, LenProperties
<1>4. FilterSound(RecentAt(s, t))
  BY <1>2, FilterIsSound
<1>5. ASSUME NEW later \in Nat, later >= t
      PROVE  /\ RecentAt(RecentAt(s, t), later) = RecentAt(s, later)
             /\ Len(RecentAt(s, later)) <= Len(RecentAt(s, t))
  <2>1. RecentAt(RecentAt(s, t), later) = RecentAt(s, later)
    BY <1>1, <1>5 DEF FilterSound
  <2>2. Len(RecentAt(RecentAt(s, t), later)) <= Len(RecentAt(s, t))
    BY <1>4 DEF FilterSound
  <2> QED
    BY <2>1, <2>2
<1> QED
  BY <1>1, <1>2, <1>3, <1>5 DEF FilterSound

LEMMA LimiterStarts == LimiterInit => LimiterInv
<1> SUFFICES ASSUME LimiterInit
             PROVE  LimiterInv
  OBVIOUS
<1>1. <<>> \in Seq(Nat) /\ Len(<<>>) = 0 /\ RecentAt(<<>>, clock) = <<>>
  BY EmptySeq, RecentOfNothing
<1>2. \A a \in Attempts : attempt[a] = {}
  BY DEF LimiterInit
<1>3. ASSUME NEW k \in Keys
      PROVE  KeySound(k)
  <2>1. failures[k] = <<>> /\ happened[k] = <<>>
    BY DEF LimiterInit, NoFailures
  <2>2. Pending(k) = {}
    BY <1>2 DEF Pending
  <2>3. Cardinality(Pending(k)) = 0 /\ Cardinality(Attempts) \in Nat
    BY <2>2, FS_EmptySet, PendingIsBounded
  <2>4. Len(failures[k]) = 0 /\ Len(Recent(k)) = 0
    BY <1>1, <2>1 DEF Recent
  <2> QED
    BY <2>1, <2>3, <2>4, LimitsAreNumbers DEF KeySound, Recent
<1> QED
  BY <1>1, <1>3 DEF LimiterInit, LimiterInv, NoFailures

\* A key whose failures, successes and sign-ins are as they were.
LEMMA KeyWaits ==
    ASSUME LimiterInv, NEW k \in Keys, failures'[k] = failures[k], happened'[k] = happened[k],
           clock' \in Nat, clock' >= clock, Pending(k)' \subseteq Pending(k)
    PROVE  KeySound(k)'
<1>1. KeySound(k) /\ failures[k] \in Seq(Nat) /\ happened[k] \in Seq(Nat) /\ clock \in Nat
  BY DEF LimiterInv
<1>2. \A n \in 1 .. Len(failures'[k]) : failures'[k][n] <= clock'
  <2> TAKE n \in 1 .. Len(failures'[k])
  <2>1. n \in 1 .. Len(failures[k])
    OBVIOUS
  <2>2. failures[k][n] \in Nat /\ failures[k][n] <= clock
    BY <1>1, <2>1, ElementOfSeq DEF KeySound
  <2> QED
    BY <1>1, <2>2
<1>3. Recent(k)' = RecentAt(failures[k], clock') /\ RecentAt(happened[k], clock)' = RecentAt(happened[k], clock')
  BY DEF Recent
<1>4. RecentAt(failures[k], clock') = RecentAt(Recent(k), clock')
      /\ RecentAt(happened[k], clock') = RecentAt(RecentAt(happened[k], clock), clock')
  BY <1>1, RecentIsSound DEF Recent
<1>5. Recent(k)' = RecentAt(happened[k], clock)'
  BY <1>1, <1>3, <1>4 DEF KeySound
<1>6. Len(RecentAt(failures[k], clock')) <= Len(Recent(k)) /\ Len(Recent(k)) \in Nat
      /\ Len(RecentAt(failures[k], clock')) \in Nat
  BY <1>1, RecentIsSound DEF Recent
<1>7. /\ Cardinality(Pending(k)') <= Cardinality(Pending(k))
      /\ Cardinality(Pending(k)) \in Nat /\ Cardinality(Pending(k)') \in Nat
  <2>1. IsFiniteSet(Pending(k)) /\ Cardinality(Pending(k)) \in Nat
    BY PendingIsBounded DEF Pending
  <2> QED
    BY <2>1, FS_Subset, FS_CardinalityType
<1>8. Cardinality(Attempts) \in Nat
  BY PendingIsBounded
<1> QED
  BY <1>1, <1>2, <1>3, <1>5, <1>6, <1>7, <1>8, LimitsAreNumbers DEF KeySound

\* A sweep drops nothing that counts.
LEMMA SweepForgetsNothing ==
    ASSUME LimiterInv, Sweep, UNCHANGED <<clock, happened>>, NEW k \in Keys
    PROVE  /\ failures' \in [Keys -> Seq(Nat)] /\ lastSweep' \in Nat
           /\ \A n \in 1 .. Len(failures'[k]) : failures'[k][n] <= clock
           /\ Recent(k)' = Recent(k)
<1>1. /\ failures \in [Keys -> Seq(Nat)] /\ clock \in Nat /\ lastSweep \in Nat /\ KeySound(k)
      /\ failures[k] \in Seq(Nat)
  BY DEF LimiterInv
<1>2. <<>> \in Seq(Nat) /\ Len(<<>>) = 0 /\ RecentAt(<<>>, clock) = <<>>
  BY EmptySeq, RecentOfNothing
<1>3. failures' \in [Keys -> Seq(Nat)] /\ lastSweep' \in Nat
  BY <1>1, <1>2 DEF Sweep, Swept
<1>4. failures'[k] = failures[k] \/ (k \in Forgotten /\ failures'[k] = <<>>)
  BY DEF Sweep, Swept
<1>5. CASE failures'[k] = failures[k]
  BY <1>1, <1>3, <1>5 DEF KeySound, Recent
<1>6. CASE k \in Forgotten /\ failures'[k] = <<>>
  <2>1. \A m \in 1 .. Len(failures[k]) : failures[k][m] <= clock - Window
    BY <1>1, <1>6, LenProperties DEF Forgotten
  <2>2. Recent(k) = <<>>
    BY <1>1, <2>1, RecentIsSound DEF Recent
  <2>3. Recent(k)' = <<>>
    BY <1>2, <1>6 DEF Recent
  <2>4. 1 .. Len(failures'[k]) = {}
    BY <1>2, <1>6
  <2> QED
    BY <1>3, <2>2, <2>3, <2>4
<1> QED
  BY <1>4, <1>5, <1>6

LEMMA SignInsAreChecked ==
    ASSUME LimiterInv, NEW a \in Attempts, NEW keys \in SUBSET Keys,
           CheckAllowed(a, keys) \/ CheckRefused(a, keys)
    PROVE  LimiterInv'
<1>1. /\ clock \in Nat /\ happened \in [Keys -> Seq(Nat)] /\ attempt \in [Attempts -> SUBSET Keys]
      /\ Sweep /\ UNCHANGED <<clock, happened>> /\ attempt[a] = {}
      /\ \A k \in Keys : KeySound(k)
  BY DEF LimiterInv, CheckAllowed, CheckRefused
<1>2. /\ \A k \in Keys : /\ \A n \in 1 .. Len(failures'[k]) : failures'[k][n] <= clock
                         /\ Recent(k)' = Recent(k)
      /\ Keys = {} \/ (failures' \in [Keys -> Seq(Nat)] /\ lastSweep' \in Nat)
  BY <1>1, SweepForgetsNothing
<1>3. failures' \in [Keys -> Seq(Nat)] /\ lastSweep' \in Nat
  BY <1>1, <1>2 DEF LimiterInv, Sweep, Swept
<1>4. attempt' \in [Attempts -> SUBSET Keys]
  BY <1>1 DEF CheckAllowed, CheckRefused
<1>5. ASSUME NEW k \in Keys
      PROVE  KeySound(k)'
  <2>1. Recent(k)' = RecentAt(happened[k], clock)'
    BY <1>1, <1>2 DEF KeySound, Recent
  <2>2. Len(Recent(k)) \in Nat
    <3>1. failures[k] \in Seq(Nat)
      BY DEF LimiterInv
    <3> QED
      BY <1>1, <3>1, RecentIsSound DEF Recent
  <2>3. Cardinality(Pending(k)') \in Nat /\ Cardinality(Pending(k)') <= Cardinality(Attempts)
        /\ Cardinality(Attempts) \in Nat
    <3>1. Pending(k)' \in SUBSET Attempts
      BY DEF Pending
    <3> QED
      BY <3>1, PendingIsBounded
  <2>4. CASE attempt' = [attempt EXCEPT ![a] = keys] /\ k \in keys /\ ~AtLimit(k)
    <3>1. Len(Recent(k)) + Cardinality(Pending(k)') < MaxAttempts + Cardinality(Attempts)
      BY <2>2, <2>3, <2>4, LimitsAreNumbers DEF AtLimit
    <3> QED
      BY <1>1, <1>2, <2>1, <3>1 DEF KeySound
  <2>5. CASE attempt' = attempt \/ (attempt' = [attempt EXCEPT ![a] = keys] /\ k \notin keys)
    <3>1. Pending(k)' = Pending(k)
      BY <1>1, <2>5 DEF Pending
    <3> QED
      BY <1>1, <1>2, <2>1, <3>1 DEF KeySound
  <2>6. \/ attempt' = attempt
        \/ attempt' = [attempt EXCEPT ![a] = keys] /\ \A key \in keys : ~AtLimit(key)
    BY DEF CheckAllowed, CheckRefused
  <2> QED
    BY <2>4, <2>5, <2>6
<1> QED
  BY <1>1, <1>3, <1>4, <1>5 DEF LimiterInv

LEMMA SignInsEnd ==
    ASSUME LimiterInv, NEW a \in Attempts, EndUncounted(a)
    PROVE  LimiterInv'
<1>1. attempt \in [Attempts -> SUBSET Keys] /\ clock \in Nat
  BY DEF LimiterInv
<1>2. attempt' \in [Attempts -> SUBSET Keys]
  BY <1>1 DEF EndUncounted
<1>3. ASSUME NEW k \in Keys
      PROVE  KeySound(k)'
  <2>1. Pending(k)' \subseteq Pending(k)
    BY <1>1 DEF EndUncounted, Pending
  <2> QED
    BY <1>1, <2>1, KeyWaits DEF EndUncounted
<1> QED
  BY <1>1, <1>2, <1>3 DEF EndUncounted, LimiterInv

LEMMA TimePasses == ASSUME LimiterInv, ClockTicks PROVE LimiterInv'
<1>1. clock \in Nat /\ clock' = clock + 1
  BY DEF LimiterInv, ClockTicks
<1>2. clock' \in Nat /\ clock' >= clock
  BY <1>1
<1>3. ASSUME NEW k \in Keys
      PROVE  KeySound(k)'
  <2>1. Pending(k)' \subseteq Pending(k)
    BY DEF ClockTicks, Pending
  <2> QED
    BY <1>2, <2>1, KeyWaits DEF ClockTicks
<1> QED
  BY <1>2, <1>3 DEF ClockTicks, LimiterInv

\* A key of which nothing is remembered.
LEMMA KeyIsFresh ==
    ASSUME NEW k \in Keys, failures'[k] = <<>>, happened'[k] = <<>>
    PROVE  KeySound(k)'
<1>1. Recent(k)' = <<>> /\ RecentAt(happened[k], clock)' = <<>> /\ Len(<<>>) = 0
  BY RecentOfNothing, EmptySeq DEF Recent
<1>2. 1 .. Len(failures'[k]) = {}
  BY EmptySeq
<1>3. Pending(k)' \in SUBSET Attempts
  BY DEF Pending
<1>4. Cardinality(Pending(k)') \in Nat /\ Cardinality(Pending(k)') <= Cardinality(Attempts)
      /\ Cardinality(Attempts) \in Nat
  BY <1>3, PendingIsBounded
<1> QED
  BY <1>1, <1>2, <1>4, LimitsAreNumbers DEF KeySound

LEMMA SignInsSucceed ==
    ASSUME LimiterInv, NEW a \in Attempts, ResetKeys(a)
    PROVE  LimiterInv'
<1>1. attempt \in [Attempts -> SUBSET Keys] /\ clock \in Nat /\ <<>> \in Seq(Nat)
      /\ failures \in [Keys -> Seq(Nat)] /\ happened \in [Keys -> Seq(Nat)]
  BY EmptySeq DEF LimiterInv
<1>2. /\ attempt' \in [Attempts -> SUBSET Keys]
      /\ failures' \in [Keys -> Seq(Nat)] /\ happened' \in [Keys -> Seq(Nat)]
  BY <1>1 DEF ResetKeys
<1>3. ASSUME NEW k \in Keys
      PROVE  KeySound(k)'
  <2>1. CASE k \in attempt[a]
    <3>1. failures'[k] = <<>> /\ happened'[k] = <<>>
      BY <2>1 DEF ResetKeys
    <3> QED
      BY <3>1, KeyIsFresh
  <2>2. CASE k \notin attempt[a]
    <3>1. failures'[k] = failures[k] /\ happened'[k] = happened[k] /\ clock' = clock
      BY <2>2 DEF ResetKeys
    <3>2. Pending(k)' \subseteq Pending(k)
      BY <1>1 DEF ResetKeys, Pending
    <3> QED
      BY <1>1, <3>1, <3>2, KeyWaits
  <2> QED
    BY <2>1, <2>2
<1> QED
  BY <1>1, <1>2, <1>3 DEF ResetKeys, LimiterInv

LEMMA ServerRestarts == ASSUME LimiterInv, RestartServer PROVE LimiterInv'
<1>1. <<>> \in Seq(Nat) /\ clock \in Nat
  BY EmptySeq DEF LimiterInv
<1>2. \A k \in Keys : failures'[k] = <<>> /\ happened'[k] = <<>>
  BY DEF RestartServer, NoFailures
<1>3. \A k \in Keys : KeySound(k)'
  BY <1>2, KeyIsFresh
<1> QED
  BY <1>1, <1>3 DEF RestartServer, NoFailures, LimiterInv

LEMMA FailuresAreRecorded ==
    ASSUME LimiterInv, NEW a \in Attempts, RecordFailure(a)
    PROVE  LimiterInv'
<1>1. attempt \in [Attempts -> SUBSET Keys] /\ clock \in Nat /\ clock' = clock
      /\ failures \in [Keys -> Seq(Nat)] /\ happened \in [Keys -> Seq(Nat)]
      /\ \A k \in Keys : KeySound(k)
  BY DEF LimiterInv, RecordFailure
<1>2. ASSUME NEW k \in Keys
      PROVE  /\ failures[k] \in Seq(Nat) /\ happened[k] \in Seq(Nat)
             /\ Recent(k) \in Seq(Nat) /\ Len(Recent(k)) \in Nat
             /\ Append(Recent(k), clock) \in Seq(Nat) /\ Append(happened[k], clock) \in Seq(Nat)
  <2>1. failures[k] \in Seq(Nat) /\ happened[k] \in Seq(Nat)
    BY <1>1
  <2>2. Recent(k) \in Seq(Nat) /\ Len(Recent(k)) \in Nat
    BY <1>1, <2>1, RecentIsSound DEF Recent
  <2> QED
    BY <1>1, <2>1, <2>2, AppendProperties
<1>3. /\ attempt' \in [Attempts -> SUBSET Keys]
      /\ failures' \in [Keys -> Seq(Nat)] /\ happened' \in [Keys -> Seq(Nat)]
  BY <1>1, <1>2 DEF RecordFailure
<1>4. ASSUME NEW k \in Keys
      PROVE  KeySound(k)'
  <2>1. CASE k \in attempt[a]
    <3> DEFINE r == Recent(k)  q == Append(r, clock)
    <3>1. failures'[k] = q /\ happened'[k] = Append(happened[k], clock)
      BY <2>1 DEF RecordFailure
    <3>2. KeySound(k) /\ r \in Seq(Nat) /\ Len(r) \in Nat /\ Len(q) = Len(r) + 1 /\ q[Len(r) + 1] = clock
          /\ \A n \in 1 .. Len(r) : q[n] = r[n]
      BY <1>1, <1>2, AppendProperties
    <3>3. clock > clock - Window
      BY <1>1, LimitsAreNumbers
    <3>4. RecentAt(r, clock) = r
      BY <1>1, <1>2, RecentIsSound DEF Recent
    <3>5. RecentAt(q, clock) = Append(RecentAt(r, clock), clock)
      BY <1>1, <3>2, <3>3, RecentOfOneMore
    <3>6. RecentAt(Append(happened[k], clock), clock) = Append(RecentAt(happened[k], clock), clock)
      BY <1>1, <1>2, <3>3, RecentOfOneMore
    <3>7. Recent(k)' = q /\ RecentAt(happened[k], clock)' = q
      BY <1>1, <3>1, <3>2, <3>4, <3>5, <3>6 DEF KeySound, Recent
    <3>8. \A n \in 1 .. Len(failures'[k]) : failures'[k][n] <= clock
      <4> TAKE n \in 1 .. Len(failures'[k])
      <4>1. CASE n = Len(r) + 1
        BY <1>1, <3>1, <3>2, <4>1
      <4>2. CASE n # Len(r) + 1
        <5>1. n \in 1 .. Len(r) /\ failures'[k][n] = r[n]
          BY <3>1, <3>2, <4>2
        <5>2. PICK m \in 1 .. Len(failures[k]) : r[n] = failures[k][m]
          BY <1>1, <1>2, <5>1, RecentIsSound DEF Recent
        <5> QED
          BY <3>2, <5>1, <5>2 DEF KeySound
      <4> QED
        BY <4>1, <4>2
    <3>9. /\ Cardinality(Pending(k)') = Cardinality(Pending(k)) - 1
          /\ Cardinality(Pending(k)) \in Nat /\ Cardinality(Attempts) \in Nat
      <4>1. Pending(k)' = Pending(k) \ {a} /\ a \in Pending(k) /\ Pending(k) \in SUBSET Attempts
        BY <1>1, <2>1 DEF RecordFailure, Pending
      <4> QED
        BY <4>1, PendingIsBounded, FS_RemoveElement
    <3> HIDE DEF q, r
    <3>10. Len(q) + Cardinality(Pending(k)') < MaxAttempts + Cardinality(Attempts)
      BY <3>2, <3>9, LimitsAreNumbers DEF KeySound, r
    <3> QED
      BY <1>1, <3>7, <3>8, <3>10 DEF KeySound
  <2>2. CASE k \notin attempt[a]
    <3>1. failures'[k] = failures[k] /\ happened'[k] = happened[k] /\ clock' = clock
      BY <2>2 DEF RecordFailure
    <3>2. Pending(k)' \subseteq Pending(k)
      BY <1>1 DEF RecordFailure, Pending
    <3> QED
      BY <1>1, <3>1, <3>2, KeyWaits
  <2> QED
    BY <2>1, <2>2
<1> QED
  BY <1>1, <1>3, <1>4 DEF RecordFailure, LimiterInv

LEMMA LimiterStepHolds == LimiterInv /\ [LimiterNext]_limiterVars => LimiterInv'
<1> SUFFICES ASSUME LimiterInv, [LimiterNext]_limiterVars
             PROVE  LimiterInv'
  OBVIOUS
<1>1. CASE UNCHANGED limiterVars
  <2>1. UNCHANGED <<clock, failures, lastSweep, attempt, happened>>
    BY <1>1 DEF limiterVars
  <2>2. ASSUME NEW k \in Keys
        PROVE  KeySound(k)'
    <3>1. Pending(k)' \subseteq Pending(k) /\ clock' \in Nat /\ clock' >= clock
      BY <2>1 DEF Pending, LimiterInv
    <3> QED
      BY <2>1, <3>1, KeyWaits
  <2> QED
    BY <2>1, <2>2 DEF LimiterInv
<1>2. ASSUME NEW a \in Attempts, NEW address \in Addresses \cup {NoKey}, NEW name \in Names,
             CheckAllowed(a, LoginRateLimitKeys(address, name))
               \/ CheckRefused(a, LoginRateLimitKeys(address, name))
      PROVE  LimiterInv'
  <2>1. LoginRateLimitKeys(address, name) \in SUBSET Keys
    BY DEF LoginRateLimitKeys, Keys
  <2> QED
    BY <1>2, <2>1, SignInsAreChecked
<1>3. ASSUME NEW a \in Attempts, RecordFailure(a) \/ ResetKeys(a) \/ EndUncounted(a)
      PROVE  LimiterInv'
  BY <1>3, FailuresAreRecorded, SignInsSucceed, SignInsEnd
<1>4. CASE RestartServer \/ ClockTicks
  BY <1>4, ServerRestarts, TimePasses
<1> QED
  BY <1>1, <1>2, <1>3, <1>4 DEF LimiterNext

\* However sign-ins overlap, with passwords checked between the limiter's check
\* and its record, pruning and sweeping forget no failure that counts, a key has
\* no more failures than the limit and the sign-ins let in before, and it opens
\* when a refused caller was told (rate-limit.ts: check, recordFailure, sweep).
THEOREM LimiterKeepsCount == LimiterSpec => []LimiterHolds
<1>1. LimiterInv => LimiterHolds
  <2> SUFFICES ASSUME LimiterInv, NEW k \in Keys
               PROVE  /\ Recent(k) = RecentAt(happened[k], clock)
                      /\ Len(Recent(k)) < MaxAttempts + Cardinality(Attempts)
                      /\ Len(Recent(k)) = MaxAttempts =>
                           /\ RetryAfter(k) \in 1 .. Window
                           /\ Len(RecentAt(failures[k], clock + RetryAfter(k))) < MaxAttempts
    BY DEF LimiterHolds
  <2>1. clock \in Nat /\ failures[k] \in Seq(Nat) /\ KeySound(k)
    BY DEF LimiterInv
  <2>2. Recent(k) \in Seq(Nat) /\ Len(Recent(k)) \in Nat
    BY <2>1, RecentIsSound DEF Recent
  <2>3. Cardinality(Pending(k)) \in Nat /\ Cardinality(Attempts) \in Nat
    BY PendingIsBounded DEF Pending
  <2>4. ASSUME Len(Recent(k)) = MaxAttempts
        PROVE  /\ RetryAfter(k) \in 1 .. Window
               /\ Len(RecentAt(failures[k], clock + RetryAfter(k))) < MaxAttempts
    <3> DEFINE oldest == Recent(k)[1]
    <3>1. 1 \in 1 .. Len(Recent(k))
      BY <2>2, <2>4, LimitsAreNumbers
    <3>2. oldest \in Nat
      BY <2>2, <3>1, ElementOfSeq
    <3>3. oldest > clock - Window /\ \E m \in 1 .. Len(failures[k]) : oldest = failures[k][m]
      BY <2>1, <3>1, RecentIsSound DEF Recent
    <3>4. oldest <= clock
      BY <2>1, <3>3 DEF KeySound
    <3> HIDE DEF oldest
    <3>5. RetryAfter(k) = oldest + Window - clock
      BY DEF RetryAfter, oldest
    <3>6. RetryAfter(k) \in 1 .. Window
      BY <2>1, <3>2, <3>3, <3>4, <3>5, LimitsAreNumbers
    <3>7. clock + RetryAfter(k) = oldest + Window /\ oldest + Window \in Nat /\ oldest + Window >= clock
      BY <2>1, <3>2, <3>3, <3>5, LimitsAreNumbers
    <3>8. RecentAt(failures[k], oldest + Window) = RecentAt(Recent(k), oldest + Window)
      BY <2>1, <3>7, RecentIsSound DEF Recent
    <3>9. Recent(k) # <<>> /\ Recent(k)[1] <= (oldest + Window) - Window
      <4>1. Recent(k) # <<>>
        BY <2>4, EmptySeq, LimitsAreNumbers
      <4>2. oldest <= (oldest + Window) - Window
        BY <3>2, LimitsAreNumbers
      <4> QED
        BY <4>1, <4>2 DEF oldest
    <3>10. Len(RecentAt(Recent(k), oldest + Window)) < Len(Recent(k))
      BY <2>2, <3>7, <3>9, RecentIsSound
    <3> QED
      BY <2>4, <3>6, <3>7, <3>8, <3>10
  <2> QED
    BY <2>1, <2>2, <2>3, <2>4, LimitsAreNumbers DEF KeySound
<1> QED
  BY <1>1, LimiterStarts, LimiterStepHolds, PTL DEF LimiterSpec

-----------------------------------------------------------------------------
(* Histories *)

\* Everything that happens.
Events == {"Kit", "Asset", "EditorProfile", "added", "removed", "kit status", "status", "booked",
           "collected", "returned", "cancelled", "started", "reported", "resolved"}

Happened(what, of, at) == [what |-> what, of |-> of, at |-> at] \in past

HistoriesTypeOK ==
    /\ instant \in Nat
    /\ past \subseteq [what : Events, of : {0} \cup TrailBookings, at : 1 .. instant]
    /\ audit \subseteq [on : {"Kit", "Asset", "EditorProfile"}, what : Events,
                        of : {0} \cup TrailBookings, at : 1 .. instant]
    /\ statusLog \subseteq [of : TrailBookings, at : 1 .. instant]
    /\ IsFiniteSet(audit) /\ IsFiniteSet(statusLog)
    /\ membership \in [added : 0 .. instant, removed : 0 .. instant]
    /\ booked \in [TrailBookings -> [created : Nat, collection : Nat,
                                     returned : Nat, cancelled : Nat]]
    /\ inspected \in [TrailBookings -> [Documents -> [started : Nat, completed : Nat]]]
    /\ raised \in [reported : Nat, resolved : Nat]

BookingsAreTrue ==
    \A b \in TrailBookings :
      /\ booked[b].created # 0 => Happened("booked", b, booked[b].created)
      /\ booked[b].returned # 0 => Happened("returned", b, booked[b].returned)
      /\ booked[b].cancelled # 0 => Happened("cancelled", b, booked[b].cancelled)
      /\ \A d \in Documents :
           inspected[b][d].started # 0 => Happened("started", b, inspected[b][d].started)
      /\ inspected[b]["HANDOVER"].completed # 0 =>
           /\ Happened("collected", b, booked[b].collection)
           /\ Happened("collected", b, inspected[b]["HANDOVER"].completed)
      /\ inspected[b]["RETURN"].completed # 0 =>
           Happened("returned", b, inspected[b]["RETURN"].completed)

\* What the rows say has happened; a collection is on record once its document
\* is complete.
RowsAreTrue ==
    /\ \A a \in audit : Happened(a.what, a.of, a.at)
    /\ \A l \in statusLog : Happened("status", l.of, l.at)
    /\ membership.added # 0 => Happened("added", 0, membership.added)
    /\ membership.removed # 0 => Happened("removed", 0, membership.removed)
    /\ raised.reported # 0 => Happened("reported", 0, raised.reported)
    /\ raised.resolved # 0 => Happened("resolved", 0, raised.resolved)
    /\ BookingsAreTrue

AuditOf(on, what, p) == [on |-> on, what |-> what, of |-> p.of, at |-> p.at] \in audit

IsLogged(p) ==
    /\ p.what \in {"Kit", "removed", "kit status"} => AuditOf("Kit", p.what, p)
    /\ p.what \in {"Asset", "EditorProfile"} => AuditOf(p.what, p.what, p)
    /\ p.what = "status" => [of |-> p.of, at |-> p.at] \in statusLog

IsOnRecord(p) ==
    /\ p.what \in {"added", "removed", "reported", "resolved"} => p.of = 0
    /\ p.what \in {"booked", "collected", "returned", "cancelled"} => p.of \in TrailBookings
    /\ p.what = "booked" => booked[p.of].created = p.at
    /\ p.what = "cancelled" => booked[p.of].cancelled = p.at
    /\ p.what = "collected" => /\ booked[p.of].collection = p.at
                               /\ inspected[p.of]["HANDOVER"].completed = p.at
    /\ p.what = "returned" => /\ booked[p.of].returned = p.at
                              /\ inspected[p.of]["RETURN"].completed = p.at
    /\ p.what = "reported" => raised.reported = p.at

\* What has happened is in the rows, but for a stay that was begun again and an
\* issue that was opened again.
PastIsInRows == \A p \in past : IsLogged(p) /\ IsOnRecord(p)

\* No document is completed that was not started, nor started without a booking.
StepByStep ==
    \A b \in TrailBookings, d \in Documents :
      /\ inspected[b][d].completed # 0 => inspected[b][d].started # 0
      /\ inspected[b][d].started # 0 => booked[b].created # 0

\* Each trail's audit entries; one at a time, whatever the table; a stay without
\* an audit entry is the first.
RowsComeOneByOne ==
    /\ \A a \in audit : a.what \in IF a.on = "Kit" THEN {"Kit", "added", "removed", "kit status"}
                                   ELSE {a.on}
    /\ \A a, o \in audit : a.at = o.at => a = o
    /\ \A l, o \in statusLog : l.at = o.at => l = o
    /\ \A p, q \in past : p.at = q.at /\ {p.what, q.what} \cap {"status", "kit status"} = {} => p = q
    /\ \A a \in audit : a.what = "added" /\ membership.added # 0 =>
         \E o \in audit : o.what = "added" /\ o.at = membership.added

HistoriesInv == HistoriesTypeOK /\ RowsAreTrue /\ PastIsInRows /\ RowsComeOneByOne /\ StepByStep

LEMMA RowsAreTyped ==
    ASSUME HistoriesInv
    PROVE  /\ IsFiniteSet(audit) /\ IsFiniteSet(statusLog)
           /\ \A a \in audit : /\ a.at \in Int /\ a.of \in Int
                               /\ a = [on |-> a.on, what |-> a.what, of |-> a.of, at |-> a.at]
           /\ \A l \in statusLog : l.at \in Int /\ l.of \in Int
           /\ \A p \in past : /\ p.at \in 1 .. instant /\ p.of \in Int
                              /\ p = [what |-> p.what, of |-> p.of, at |-> p.at]
<1>1. HistoriesTypeOK /\ {0} \cup TrailBookings \subseteq Int
  BY HistoriesAssumption DEF HistoriesInv
<1>2. \A a \in audit : /\ a.at \in 1 .. instant /\ a.of \in {0} \cup TrailBookings
                       /\ a = [on |-> a.on, what |-> a.what, of |-> a.of, at |-> a.at]
  BY <1>1 DEF HistoriesTypeOK
<1>3. \A l \in statusLog : l.at \in 1 .. instant /\ l.of \in TrailBookings
  BY <1>1 DEF HistoriesTypeOK
<1>4. \A p \in past : /\ p.at \in 1 .. instant /\ p.of \in {0} \cup TrailBookings
                      /\ p = [what |-> p.what, of |-> p.of, at |-> p.at]
  BY <1>1 DEF HistoriesTypeOK
<1>5. IsFiniteSet(audit) /\ IsFiniteSet(statusLog)
  BY <1>1 DEF HistoriesTypeOK
<1> QED
  BY <1>1, <1>2, <1>3, <1>4, <1>5

LEMMA TwoAreFinite ==
    ASSUME NEW x, NEW y
    PROVE  IsFiniteSet({x, y})
<1>1. IsFiniteSet({x})
  BY FS_Singleton
<1>2. IsFiniteSet({x} \cup {y})
  BY <1>1, FS_AddElement
<1>3. {x, y} = {x} \cup {y}
  OBVIOUS
<1> QED
  BY <1>2, <1>3

\* The elements of S with fewer than k others before them in R.
FirstBy(S, R, k) == {x \in S : Cardinality({y \in S : <<y, x>> \in R}) < k}

\* Of a finite set in a strict total order, they are k, or all, and they come
\* before the rest.
LEMMA TheFirstAreK ==
    ASSUME NEW S, IsFiniteSet(S), NEW R, NEW k \in Nat,
           \A x \in S : <<x, x>> \notin R,
           \A x, y, z \in S : <<x, y>> \in R /\ <<y, z>> \in R => <<x, z>> \in R,
           \A x, y \in S : x # y => <<x, y>> \in R \/ <<y, x>> \in R
    PROVE  /\ FirstBy(S, R, k) \subseteq S /\ IsFiniteSet(FirstBy(S, R, k))
           /\ Cardinality(S) >= k => Cardinality(FirstBy(S, R, k)) = k
           /\ FirstBy(S, R, k) # S => Cardinality(S) >= k
           /\ \A x \in S \ FirstBy(S, R, k), y \in FirstBy(S, R, k) : <<y, x>> \in R
<1> DEFINE F == FirstBy(S, R, k)
           Before(x) == {y \in S : <<y, x>> \in R}
           n == Cardinality(S)
           r == [x \in S |-> Cardinality(Before(x))]
<1>1. n \in Nat
  BY FS_CardinalityType
<1>2. ASSUME NEW x \in S
      PROVE  /\ Before(x) \subseteq S /\ IsFiniteSet(Before(x))
             /\ Cardinality(Before(x)) \in Nat /\ Cardinality(Before(x)) < n
  <2>1. Before(x) \subseteq S /\ x \notin Before(x)
    OBVIOUS
  <2>2. IsFiniteSet(Before(x)) /\ Cardinality(Before(x)) =< n /\ Before(x) # S
    BY <2>1, FS_Subset
  <2>3. Cardinality(Before(x)) # n
    BY <2>1, <2>2, FS_Subset
  <2>4. Cardinality(Before(x)) \in Nat
    BY <2>2, FS_CardinalityType
  <2> HIDE DEF Before, n
  <2> QED
    BY <1>1, <2>1, <2>2, <2>3, <2>4
<1>3. ASSUME NEW x \in S, NEW y \in S, <<x, y>> \in R
      PROVE  Cardinality(Before(x)) < Cardinality(Before(y))
  <2>1. Before(x) \subseteq Before(y) /\ x \in Before(y) /\ x \notin Before(x)
    BY <1>3
  <2>2. IsFiniteSet(Before(y)) /\ Cardinality(Before(x)) \in Nat /\ Cardinality(Before(y)) \in Nat
    BY <1>2
  <2> HIDE DEF Before
  <2>3. Cardinality(Before(x)) =< Cardinality(Before(y))
    BY <2>1, <2>2, FS_Subset
  <2>4. Cardinality(Before(x)) # Cardinality(Before(y))
    BY <2>1, <2>2, FS_Subset
  <2> QED
    BY <2>2, <2>3, <2>4
<1>4. r \in [S -> 0 .. n - 1] /\ \A x, y \in S : <<x, y>> \in R => r[x] < r[y]
  <2>1. \A x \in S : Cardinality(Before(x)) \in 0 .. n - 1
    <3> HIDE DEF Before, n
    <3> QED BY <1>1, <1>2
  <2>2. \A x, y \in S : <<x, y>> \in R => Cardinality(Before(x)) < Cardinality(Before(y))
    BY <1>3
  <2> HIDE DEF Before, n
  <2> QED
    BY <2>1, <2>2
<1>f. F = {x \in S : r[x] < k}
  BY DEF FirstBy
<1> HIDE DEF r, n, Before, F
<1>5. r \in Injection(S, 0 .. n - 1)
  <2>1. \A x, y \in S : r[x] = r[y] => x = y
    <3> SUFFICES ASSUME NEW x \in S, NEW y \in S, r[x] = r[y], x # y PROVE FALSE
      OBVIOUS
    <3>1. r[x] \in Int /\ ~(r[x] < r[y]) /\ ~(r[y] < r[x])
      BY <1>4
    <3>2. <<x, y>> \in R \/ <<y, x>> \in R
      OBVIOUS
    <3> QED
      BY <1>4, <3>1, <3>2
  <2> QED
    BY <1>4, <2>1 DEF Injection, IsInjective
<1>6. IsFiniteSet(0 .. n - 1) /\ Cardinality(0 .. n - 1) = n
  BY <1>1, FS_Interval
<1>7. r \in Surjection(S, 0 .. n - 1)
  BY <1>5, <1>6, FS_Injection DEF n
<1>8. F \subseteq S /\ IsFiniteSet(F)
  BY <1>f, FS_Subset
<1>9. ASSUME n >= k PROVE Cardinality(F) = k
  <2> DEFINE g == [x \in F |-> r[x]]
  <2>1. IsFiniteSet(0 .. k - 1) /\ Cardinality(0 .. k - 1) = k
    BY FS_Interval
  <2>2. g \in [F -> 0 .. k - 1]
    <3>1. ASSUME NEW x \in F PROVE r[x] \in 0 .. k - 1
      <4>1. r[x] \in 0 .. n - 1 /\ r[x] < k
        BY <1>f, <1>4
      <4> QED
        BY <4>1, <1>1
    <3> QED
      BY <3>1
  <2>3. \A x, y \in F : g[x] = g[y] => x = y
    BY <1>5, <1>8, Fun_IsInj DEF Injection, IsInjective
  <2>4. \A i \in 0 .. k - 1 : \E x \in F : g[x] = i
    <3> SUFFICES ASSUME NEW i \in 0 .. k - 1 PROVE \E x \in F : r[x] = i
      OBVIOUS
    <3>1. i \in 0 .. n - 1 /\ i < k
      BY <1>1, <1>9
    <3>2. PICK x \in S : r[x] = i
      BY <3>1, <1>7 DEF Surjection
    <3> QED
      BY <3>1, <3>2, <1>f
  <2>5. g \in Bijection(F, 0 .. k - 1)
    <3> HIDE DEF g
    <3>1. g \in Injection(F, 0 .. k - 1)
      BY <2>2, <2>3, Fun_IsInj
    <3>2. g \in Surjection(F, 0 .. k - 1)
      BY <2>2, <2>4, Fun_IsSurj
    <3> QED
      BY <3>1, <3>2 DEF Bijection
  <2>6. ExistsBijection(F, 0 .. k - 1)
    BY <2>5 DEF ExistsBijection
  <2> QED
    BY <1>8, <2>1, <2>6, FS_Bijection
<1>10. ASSUME F # S PROVE n >= k
  <2>1. PICK x \in S : ~(r[x] < k)
    BY <1>10, <1>f
  <2>2. r[x] \in 0 .. n - 1
    BY <1>4
  <2> QED
    BY <2>1, <2>2, <1>1
<1>11. ASSUME NEW x \in S \ F, NEW y \in F PROVE <<y, x>> \in R
  <2>1. r[x] \in Int /\ r[y] \in Int /\ ~(r[x] < k) /\ r[y] < k
    BY <1>f, <1>4
  <2>2. ~(r[x] < r[y]) /\ x # y
    BY <2>1
  <2> QED
    BY <1>4, <1>8, <2>2
<1> QED
  BY <1>8, <1>9, <1>10, <1>11 DEF n, F

Ids == {"audit", "booking", "cancel", "handover", "inspection", "issue", "settled", "joined",
        "left", "return", "status"}

LEMMA IdsAreOrdered ==
    \A i, j \in Ids : IdOrder[i] \in Int /\ (IdOrder[i] = IdOrder[j] => i = j)
BY DEF Ids, IdOrder

\* Precedes is a strict order of entries, total where no two share time, id and
\* subject.
LEMMA PrecedesIsAnOrder ==
    ASSUME NEW E, \A e \in E : e.at \in Int /\ e.of \in Int /\ e.id \in Ids,
           \A e, f \in E : e.at = f.at /\ e.id = f.id /\ e.of = f.of => e = f
    PROVE  /\ \A e \in E : ~Precedes(e, e)
           /\ \A e, f, g \in E : Precedes(e, f) /\ Precedes(f, g) => Precedes(e, g)
           /\ \A e, f \in E : e # f => Precedes(e, f) \/ Precedes(f, e)
<1> DEFINE no(e) == IdOrder[e.id]
<1>1. \A e \in E : no(e) \in Int
  BY IdsAreOrdered
<1>2. \A e, f \in E : no(e) = no(f) => e.id = f.id
  BY IdsAreOrdered
<1>3. \A e, f \in E : e.id = f.id => no(e) = no(f)
  OBVIOUS
<1>4. \A e, f : Precedes(e, f) <=> \/ e.at > f.at
                                   \/ e.at = f.at /\ no(e) < no(f)
                                   \/ e.at = f.at /\ e.id = f.id /\ e.of < f.of
  BY DEF Precedes
<1> HIDE DEF no
<1>5. \A e \in E : ~Precedes(e, e)
  <2> SUFFICES ASSUME NEW e \in E PROVE ~Precedes(e, e)
    OBVIOUS
  <2>1. e.at \in Int /\ e.of \in Int /\ no(e) \in Int
    BY <1>1
  <2> QED
    BY <1>4, <2>1
<1>6. ASSUME NEW e \in E, NEW f \in E, NEW g \in E, Precedes(e, f), Precedes(f, g)
      PROVE  Precedes(e, g)
  <2>1. /\ e.at \in Int /\ e.of \in Int /\ no(e) \in Int
        /\ f.at \in Int /\ f.of \in Int /\ no(f) \in Int
        /\ g.at \in Int /\ g.of \in Int /\ no(g) \in Int
    BY <1>1
  <2>2. (e.id = f.id => no(e) = no(f)) /\ (f.id = g.id => no(f) = no(g))
    BY <1>3
  <2>3. \/ e.at > f.at
        \/ e.at = f.at /\ no(e) < no(f)
        \/ e.at = f.at /\ e.id = f.id /\ e.of < f.of
    BY <1>4, <1>6
  <2>4. \/ f.at > g.at
        \/ f.at = g.at /\ no(f) < no(g)
        \/ f.at = g.at /\ f.id = g.id /\ f.of < g.of
    BY <1>4, <1>6
  <2>5. \/ e.at > g.at
        \/ e.at = g.at /\ no(e) < no(g)
        \/ e.at = g.at /\ e.id = g.id /\ e.of < g.of
    BY <2>1, <2>2, <2>3, <2>4
  <2> QED
    BY <1>4, <2>5
<1>7. ASSUME NEW e \in E, NEW f \in E, e # f PROVE Precedes(e, f) \/ Precedes(f, e)
  <2>1. /\ e.at \in Int /\ e.of \in Int /\ no(e) \in Int
        /\ f.at \in Int /\ f.of \in Int /\ no(f) \in Int
    BY <1>1
  <2>2. no(e) = no(f) => e.id = f.id
    BY <1>2
  <2>3. ~(e.at = f.at /\ e.id = f.id /\ e.of = f.of)
    BY <1>7
  <2> QED
    BY <1>4, <2>1, <2>2, <2>3
<1> QED
  BY <1>5, <1>6, <1>7

\* What a trail keeps of its entries: all, or as many as it may, and none older
\* than one left out, nor than as many entries as it may show.
LEMMA TrailKeepsTheLatest ==
    ASSUME NEW E, IsFiniteSet(E), NEW limit \in Nat,
           \A e \in E : e.at \in Int /\ e.of \in Int /\ e.id \in Ids,
           \A e, f \in E : e.at = f.at /\ e.id = f.id /\ e.of = f.of => e = f
    PROVE  /\ FirstOf(E, limit) \subseteq E /\ IsFiniteSet(FirstOf(E, limit))
           /\ \A e \in E \ FirstOf(E, limit) :
                /\ Cardinality(FirstOf(E, limit)) = limit
                /\ \A f \in FirstOf(E, limit) : f.at >= e.at
           /\ \A C \in SUBSET E, t \in Int :
                Cardinality(C) >= limit /\ (\A c \in C : c.at >= t) =>
                  /\ Cardinality(FirstOf(E, limit)) = limit
                  /\ \A f \in FirstOf(E, limit) : f.at >= t
<1> DEFINE R == {p \in E \X E : Precedes(p[1], p[2])}
           F == FirstOf(E, limit)
<1>1. /\ \A e \in E : ~Precedes(e, e)
      /\ \A e, f, g \in E : Precedes(e, f) /\ Precedes(f, g) => Precedes(e, g)
      /\ \A e, f \in E : e # f => Precedes(e, f) \/ Precedes(f, e)
  BY PrecedesIsAnOrder
<1>2. \A e, f \in E : <<e, f>> \in R <=> Precedes(e, f)
  OBVIOUS
<1>3. \A e \in E : {f \in E : <<f, e>> \in R} = {f \in E : Precedes(f, e)}
  BY <1>2
<1>4. F = FirstBy(E, R, limit)
  BY <1>3 DEF FirstOf, FirstBy
<1> HIDE DEF R, F
<1>5. /\ F \subseteq E /\ IsFiniteSet(F)
      /\ Cardinality(E) >= limit => Cardinality(F) = limit
      /\ F # E => Cardinality(E) >= limit
      /\ \A e \in E \ F, f \in F : <<f, e>> \in R
  <2>1. \A e \in E : <<e, e>> \notin R
    BY <1>1, <1>2
  <2>2. \A e, f, g \in E : <<e, f>> \in R /\ <<f, g>> \in R => <<e, g>> \in R
    BY <1>1, <1>2
  <2>3. \A e, f \in E : e # f => <<e, f>> \in R \/ <<f, e>> \in R
    BY <1>1, <1>2
  <2> QED
    BY <1>4, <2>1, <2>2, <2>3, TheFirstAreK
<1>6. ASSUME NEW e \in E \ F
      PROVE  Cardinality(F) = limit /\ \A f \in F : f.at >= e.at
  <2>1. Cardinality(F) = limit
    BY <1>5
  <2>2. ASSUME NEW f \in F PROVE f.at >= e.at
    <3>1. Precedes(f, e) /\ f \in E
      BY <1>2, <1>5
    <3>2. f.at \in Int /\ e.at \in Int
      BY <3>1
    <3> QED
      BY <3>1, <3>2 DEF Precedes
  <2> QED
    BY <2>1, <2>2
<1>7. ASSUME NEW C \in SUBSET E, NEW t \in Int, Cardinality(C) >= limit, \A c \in C : c.at >= t
      PROVE  Cardinality(F) = limit /\ \A f \in F : f.at >= t
  <2>1. IsFiniteSet(C) /\ Cardinality(C) =< Cardinality(E)
    BY FS_Subset
  <2>2. Cardinality(C) \in Nat /\ Cardinality(E) \in Nat
    BY <2>1, FS_CardinalityType
  <2>3. Cardinality(F) = limit
    BY <1>5, <1>7, <2>1, <2>2
  <2>4. ASSUME NEW f \in F, ~(f.at >= t) PROVE FALSE
    <3> DEFINE before == {y \in E : <<y, f>> \in R}
    <3>1. f \in E /\ f.at \in Int
      BY <1>5
    <3>2. ASSUME NEW c \in C PROVE c \in before
      <4>1. c \in E /\ c.at \in Int /\ c.at > f.at
        BY <1>7, <2>4, <3>1
      <4> QED
        BY <4>1, <3>1, <1>2 DEF Precedes
    <3>3. IsFiniteSet(before)
      BY FS_Subset
    <3>4. Cardinality(C) =< Cardinality(before)
      BY <3>2, <3>3, FS_Subset
    <3>5. Cardinality(before) \in Nat /\ Cardinality(before) < limit
      BY <1>4, <3>3, FS_CardinalityType DEF FirstBy
    <3> HIDE DEF before
    <3> QED
      BY <1>7, <2>2, <3>4, <3>5
  <2> QED
    BY <2>3, <2>4
<1>8. \A e \in E \ F : Cardinality(F) = limit /\ \A f \in F : f.at >= e.at
  BY <1>6
<1>9. \A C \in SUBSET E, t \in Int :
        Cardinality(C) >= limit /\ (\A c \in C : c.at >= t) =>
          Cardinality(F) = limit /\ \A f \in F : f.at >= t
  BY <1>7
<1> QED
  BY <1>5, <1>8, <1>9 DEF F

\* Newest rows of a table where each has its own time: all, or as many as asked.
LEMMA NewestAreTheLatest ==
    ASSUME NEW rows, IsFiniteSet(rows), NEW all, rows \subseteq all, NEW limit \in Nat,
           \A r \in all : r.at \in Int,
           \A r, o \in rows : r.at = o.at => r = o,
           NEW top, top = Newest(rows, [r \in all |-> r.at], limit)
    PROVE  /\ top \subseteq rows /\ IsFiniteSet(top)
           /\ \A r \in rows \ top : Cardinality(top) = limit /\ \A o \in top : o.at >= r.at
<1> DEFINE R == {p \in rows \X rows : p[1].at > p[2].at}
<1>1. \A r, o \in rows : <<r, o>> \in R <=> r.at > o.at
  OBVIOUS
<1>2. \A r \in rows : {o \in rows : <<o, r>> \in R}
                        = {o \in rows : [x \in all |-> x.at][o] > [x \in all |-> x.at][r]}
  BY <1>1
<1>3. top = FirstBy(rows, R, limit)
  BY <1>2 DEF Newest, FirstBy
<1> HIDE DEF R
<1>4. /\ top \subseteq rows /\ IsFiniteSet(top)
      /\ Cardinality(rows) >= limit => Cardinality(top) = limit
      /\ top # rows => Cardinality(rows) >= limit
      /\ \A r \in rows \ top, o \in top : <<o, r>> \in R
  <2>0. \A r \in rows : r.at \in Int
    OBVIOUS
  <2>1. \A r \in rows : <<r, r>> \notin R
    BY <1>1, <2>0
  <2>2. \A r, o, q \in rows : <<r, o>> \in R /\ <<o, q>> \in R => <<r, q>> \in R
    BY <1>1, <2>0
  <2>3. \A r, o \in rows : r # o => <<r, o>> \in R \/ <<o, r>> \in R
    BY <1>1, <2>0
  <2>4. /\ FirstBy(rows, R, limit) \subseteq rows /\ IsFiniteSet(FirstBy(rows, R, limit))
        /\ Cardinality(rows) >= limit => Cardinality(FirstBy(rows, R, limit)) = limit
        /\ FirstBy(rows, R, limit) # rows => Cardinality(rows) >= limit
        /\ \A r \in rows \ FirstBy(rows, R, limit), o \in FirstBy(rows, R, limit) : <<o, r>> \in R
    BY <2>1, <2>2, <2>3, TheFirstAreK
  <2> QED
    BY <1>3, <2>4
<1>5. ASSUME NEW r \in rows \ top PROVE Cardinality(top) = limit /\ \A o \in top : o.at >= r.at
  <2>1. Cardinality(top) = limit
    BY <1>4
  <2>2. ASSUME NEW o \in top PROVE o.at >= r.at
    <3>1. o \in rows /\ <<o, r>> \in R
      BY <1>4
    <3>2. o.at \in Int /\ r.at \in Int /\ o.at > r.at
      BY <1>1, <3>1
    <3> QED
      BY <3>2
  <2> QED
    BY <2>1, <2>2
<1> QED
  BY <1>4, <1>5

\* Entries that are shown in one order, tell what happened, and each something
\* else.
Sound(entries) ==
    /\ IsFiniteSet(entries)
    /\ \A e \in entries : /\ e.at \in Int /\ e.of \in Int /\ e.id \in Ids
                          /\ Planned(e) \/ Told(e) \in past
    /\ \A e, f \in entries :
         (e.at = f.at /\ e.id = f.id /\ e.of = f.of) \/ Told(e) = Told(f) => e = f

\* As many entries as the trail shows are not older than t.
Crowded(entries, limit, t) ==
    \E C \in SUBSET entries : Cardinality(C) >= limit /\ \A c \in C : c.at >= t

LEMMA SoundTogether ==
    ASSUME NEW X, NEW Y, Sound(X), Sound(Y),
           \A e \in X, f \in Y : e.id # f.id /\ Told(e) # Told(f)
    PROVE  Sound(X \cup Y)
<1>1. IsFiniteSet(X \cup Y)
  BY FS_Union DEF Sound
<1>2. \A e, f \in X \cup Y :
        (e.at = f.at /\ e.id = f.id /\ e.of = f.of) \/ Told(e) = Told(f) => e = f
  BY DEF Sound
<1> QED
  BY <1>1, <1>2 DEF Sound

LEMMA SoundInPart ==
    ASSUME NEW X, Sound(X), NEW Y \in SUBSET X
    PROVE  Sound(Y)
<1>1. IsFiniteSet(Y)
  BY FS_Subset DEF Sound
<1> QED
  BY <1>1 DEF Sound

TellsThePast(on, shown, limit) ==
    LET told == {Told(e) : e \in shown} IN
    /\ \A e \in shown : Planned(e) \/ Told(e) \in past
    /\ Cardinality(told) = Cardinality(shown)
    /\ \A p \in past \ told : p.what \in About(on) =>
          \/ Cardinality(shown) = limit /\ \A e \in shown : e.at >= p.at
          \/ Rewritten(on, p) \/ CutOff(on, p, limit)

LEMMA ToldApart ==
    ASSUME NEW X, IsFiniteSet(X), \A e, f \in X : Told(e) = Told(f) => e = f
    PROVE  Cardinality({Told(e) : e \in X}) = Cardinality(X)
<1> DEFINE T == {Told(e) : e \in X}
           g == [e \in X |-> Told(e)]
<1>1. g \in [X -> T] /\ \A e, f \in X : g[e] = g[f] => e = f
  BY Zenon
<1>2. \A t \in T : \E e \in X : g[e] = t
  OBVIOUS
<1> HIDE DEF g, T
<1>3. g \in Bijection(X, T)
  BY <1>1, <1>2 DEF Bijection, Injection, Surjection, IsInjective
<1>4. ExistsBijection(X, T)
  BY <1>3 DEF ExistsBijection
<1>5. Cardinality(T) = Cardinality(X)
  BY <1>4, FS_Bijection
<1> QED
  BY <1>5 DEF T

\* A trail tells the past when its entries are sound and miss nothing but what
\* they are crowded out by.
LEMMA EntriesTell ==
    ASSUME NEW on, NEW limit \in Nat, NEW E, Sound(E),
           \A p \in past : p.at \in Int,
           \A p \in past : p.what \in About(on) =>
             \/ \E e \in E : Told(e) = p
             \/ Crowded(E, limit, p.at)
             \/ Rewritten(on, p) \/ CutOff(on, p, limit)
    PROVE  TellsThePast(on, FirstOf(E, limit), limit)
<1> DEFINE F == FirstOf(E, limit)
           told == {Told(e) : e \in F}
<1>1. /\ F \subseteq E /\ IsFiniteSet(F)
      /\ \A e \in E \ F : Cardinality(F) = limit /\ \A f \in F : f.at >= e.at
      /\ \A C \in SUBSET E, t \in Int :
           Cardinality(C) >= limit /\ (\A c \in C : c.at >= t) =>
             Cardinality(F) = limit /\ \A f \in F : f.at >= t
  <2>1. /\ IsFiniteSet(E)
        /\ \A e \in E : e.at \in Int /\ e.of \in Int /\ e.id \in Ids
        /\ \A e, f \in E : e.at = f.at /\ e.id = f.id /\ e.of = f.of => e = f
    BY DEF Sound
  <2> QED
    BY <2>1, TrailKeepsTheLatest
<1> HIDE DEF F
<1>2. \A e \in F : Planned(e) \/ Told(e) \in past
  BY <1>1 DEF Sound
<1>3. Cardinality(told) = Cardinality(F)
  <2>1. \A e, f \in F : Told(e) = Told(f) => e = f
    BY <1>1 DEF Sound
  <2> QED
    BY <1>1, <2>1, ToldApart
<1>4. ASSUME NEW p \in past \ told, p.what \in About(on)
      PROVE  \/ Cardinality(F) = limit /\ \A e \in F : e.at >= p.at
             \/ Rewritten(on, p) \/ CutOff(on, p, limit)
  <2>1. CASE \E e \in E : Told(e) = p
    <3>1. PICK e \in E : Told(e) = p
      BY <2>1
    <3>2. e \notin F /\ e.at = p.at
      BY <3>1 DEF Told
    <3> QED
      BY <1>1, <3>2
  <2>2. CASE Crowded(E, limit, p.at)
    <3>1. PICK C \in SUBSET E : Cardinality(C) >= limit /\ \A c \in C : c.at >= p.at
      BY <2>2 DEF Crowded
    <3> QED
      BY <1>1, <3>1
  <2> QED
    BY <1>4, <2>1, <2>2
<1> QED
  BY <1>2, <1>3, <1>4 DEF TellsThePast, F

Whats(on) == IF on = "Kit" THEN {"Kit", "added", "removed", "kit status"} ELSE {on}

\* The audit entries of a trail.
LEMMA AuditsTell ==
    ASSUME HistoriesInv, NEW on \in {"Kit", "Asset", "EditorProfile"}, NEW limit \in Nat,
           NEW A, A = AuditsOf(on, limit)
    PROVE  /\ A \subseteq {a \in audit : a.on = on}
           /\ Sound(AuditEntries(A))
           /\ \A e \in AuditEntries(A) : e.id = "audit" /\ e.what \in Whats(on)
           /\ \A a \in audit : a.on = on =>
                \/ \E e \in AuditEntries(A) : Told(e) = [what |-> a.what, of |-> a.of, at |-> a.at]
                \/ Crowded(AuditEntries(A), limit, a.at)
<1> DEFINE rows == {a \in audit : a.on = on}
           C == AuditEntries(A)
           g == [a \in A |-> Entry("audit", a.of, a.at, a.what)]
<1>1. /\ IsFiniteSet(audit)
      /\ \A a \in audit : /\ a.at \in Int /\ a.of \in Int
                          /\ a = [on |-> a.on, what |-> a.what, of |-> a.of, at |-> a.at]
  BY RowsAreTyped
<1>2. \A a, o \in audit : a.at = o.at => a = o
  BY DEF HistoriesInv, RowsComeOneByOne
<1>3. /\ A \subseteq rows /\ IsFiniteSet(A)
      /\ \A a \in rows \ A : Cardinality(A) = limit /\ \A o \in A : o.at >= a.at
  <2>1. IsFiniteSet(rows) /\ rows \subseteq audit
    BY <1>1, FS_Subset
  <2>2. A = Newest(rows, [a \in audit |-> a.at], limit)
    BY DEF AuditsOf
  <2> HIDE DEF rows
  <2> QED
    BY <1>1, <1>2, <2>1, <2>2, NewestAreTheLatest
<1>4. C = {Entry("audit", a.of, a.at, a.what) : a \in A}
  BY DEF AuditEntries
<1> HIDE DEF C
<1>5. \A e \in C : \E a \in A : e = Entry("audit", a.of, a.at, a.what) /\ a \in audit /\ a.on = on
  BY <1>3, <1>4
<1>6. IsFiniteSet(C) /\ Cardinality(C) = Cardinality(A)
  <2>1. g \in [A -> C] /\ \A e \in C : \E a \in A : g[a] = e
    BY <1>4
  <2>2. ASSUME NEW a \in A, NEW o \in A, g[a] = g[o] PROVE a = o
    <3>1. a \in audit /\ o \in audit /\ a.at = o.at
      BY <1>3, <2>2 DEF Entry
    <3> QED
      BY <1>2, <3>1
  <2> HIDE DEF g
  <2>3. g \in Bijection(A, C)
    BY <2>1, <2>2 DEF Bijection, Injection, Surjection, IsInjective
  <2>4. ExistsBijection(A, C)
    BY <2>3 DEF ExistsBijection
  <2> QED
    BY <1>3, <2>4, FS_Bijection
<1>7. \A e \in C : /\ e.at \in Int /\ e.of \in Int /\ e.id = "audit" /\ Told(e) \in past
                   /\ e.what \in Whats(on)
  <2> SUFFICES ASSUME NEW e \in C
               PROVE  /\ e.at \in Int /\ e.of \in Int /\ e.id = "audit" /\ Told(e) \in past
                      /\ e.what \in Whats(on)
    OBVIOUS
  <2>1. PICK a \in A : e = Entry("audit", a.of, a.at, a.what) /\ a \in audit /\ a.on = on
    BY <1>5
  <2>2. Happened(a.what, a.of, a.at)
    BY <2>1 DEF HistoriesInv, RowsAreTrue
  <2>3. a.what \in Whats(on)
    BY <2>1 DEF HistoriesInv, RowsComeOneByOne, Whats
  <2> QED
    BY <1>1, <2>1, <2>2, <2>3 DEF Entry, Told, Happened
<1>8. ASSUME NEW e \in C, NEW f \in C, e.at = f.at PROVE e = f
  <2>1. PICK a \in A : e = Entry("audit", a.of, a.at, a.what) /\ a \in audit
    BY <1>5
  <2>2. PICK o \in A : f = Entry("audit", o.of, o.at, o.what) /\ o \in audit
    BY <1>5
  <2>3. a.at = o.at
    BY <1>8, <2>1, <2>2 DEF Entry
  <2> QED
    BY <1>2, <2>1, <2>2, <2>3
<1>9. Sound(C)
  <2>1. \A e, f \in C : Told(e) = Told(f) => e.at = f.at
    BY DEF Told
  <2>2. "audit" \in Ids
    BY DEF Ids
  <2> QED
    BY <1>6, <1>7, <1>8, <2>1, <2>2 DEF Sound
<1>10. ASSUME NEW a \in rows
       PROVE  \/ \E e \in C : Told(e) = [what |-> a.what, of |-> a.of, at |-> a.at]
              \/ Crowded(C, limit, a.at)
  <2>1. CASE a \in A
    <3>1. Entry("audit", a.of, a.at, a.what) \in C
      BY <1>4, <2>1
    <3> QED
      BY <3>1 DEF Entry, Told
  <2>2. CASE a \notin A
    <3>1. Cardinality(C) = limit
      BY <1>3, <1>6, <2>2
    <3>2. \A e \in C : e.at >= a.at
      BY <1>3, <1>5, <2>2 DEF Entry
    <3>3. limit >= limit
      OBVIOUS
    <3> QED
      BY <3>1, <3>2, <3>3 DEF Crowded
  <2> QED
    BY <2>1, <2>2
<1> QED
  BY <1>3, <1>7, <1>9, <1>10 DEF C

\* The same of the member's status log.
LEMMA StatusesTell ==
    ASSUME HistoriesInv, NEW limit \in Nat
    PROVE  /\ Sound(StatusEntries(limit))
           /\ \A e \in StatusEntries(limit) : e.id = "status" /\ e.what = "status"
           /\ \A l \in statusLog :
                \/ \E e \in StatusEntries(limit) :
                     Told(e) = [what |-> "status", of |-> l.of, at |-> l.at]
                \/ Crowded(StatusEntries(limit), limit, l.at)
<1> DEFINE A == Newest(statusLog, [l \in statusLog |-> l.at], limit)
           C == StatusEntries(limit)
           g == [l \in A |-> Entry("status", l.of, l.at, "status")]
<1>1. /\ IsFiniteSet(statusLog)
      /\ \A l \in statusLog : /\ l.at \in Int /\ l.of \in Int
  BY RowsAreTyped
<1>2. \A l, o \in statusLog : l.at = o.at => l = o
  BY DEF HistoriesInv, RowsComeOneByOne
<1>4. C = {Entry("status", l.of, l.at, "status") : l \in A}
  BY DEF StatusEntries
<1>a. A = Newest(statusLog, [l \in statusLog |-> l.at], limit)
  OBVIOUS
<1> HIDE DEF C, A
<1>3. /\ A \subseteq statusLog /\ IsFiniteSet(A)
      /\ \A l \in statusLog \ A : Cardinality(A) = limit /\ \A o \in A : o.at >= l.at
  BY <1>1, <1>2, <1>a, NewestAreTheLatest
<1>5. \A e \in C : \E l \in A : e = Entry("status", l.of, l.at, "status") /\ l \in statusLog
  BY <1>3, <1>4
<1>6. IsFiniteSet(C) /\ Cardinality(C) = Cardinality(A)
  <2>1. g \in [A -> C] /\ \A e \in C : \E l \in A : g[l] = e
    BY <1>4
  <2>2. ASSUME NEW l \in A, NEW o \in A, g[l] = g[o] PROVE l = o
    <3>1. l \in statusLog /\ o \in statusLog /\ l.at = o.at
      BY <1>3, <2>2 DEF Entry
    <3> QED
      BY <1>2, <3>1
  <2> HIDE DEF g
  <2>3. g \in Bijection(A, C)
    BY <2>1, <2>2 DEF Bijection, Injection, Surjection, IsInjective
  <2>4. ExistsBijection(A, C)
    BY <2>3 DEF ExistsBijection
  <2> QED
    BY <1>3, <2>4, FS_Bijection
<1>7. \A e \in C : /\ e.at \in Int /\ e.of \in Int /\ e.id = "status" /\ e.what = "status"
                   /\ Told(e) \in past
  <2> SUFFICES ASSUME NEW e \in C
               PROVE  /\ e.at \in Int /\ e.of \in Int /\ e.id = "status" /\ e.what = "status"
                      /\ Told(e) \in past
    OBVIOUS
  <2>1. PICK l \in A : e = Entry("status", l.of, l.at, "status") /\ l \in statusLog
    BY <1>5
  <2>2. Happened("status", l.of, l.at)
    BY <2>1 DEF HistoriesInv, RowsAreTrue
  <2> QED
    BY <1>1, <2>1, <2>2 DEF Entry, Told, Happened
<1>8. ASSUME NEW e \in C, NEW f \in C, e.at = f.at PROVE e = f
  <2>1. PICK l \in A : e = Entry("status", l.of, l.at, "status") /\ l \in statusLog
    BY <1>5
  <2>2. PICK o \in A : f = Entry("status", o.of, o.at, "status") /\ o \in statusLog
    BY <1>5
  <2>3. l.at = o.at
    BY <1>8, <2>1, <2>2 DEF Entry
  <2> QED
    BY <1>2, <2>1, <2>2, <2>3
<1>9. Sound(C)
  <2>1. \A e, f \in C : Told(e) = Told(f) => e.at = f.at
    BY DEF Told
  <2>2. "status" \in Ids
    BY DEF Ids
  <2> QED
    BY <1>6, <1>7, <1>8, <2>1, <2>2 DEF Sound
<1>10. ASSUME NEW l \in statusLog
       PROVE  \/ \E e \in C : Told(e) = [what |-> "status", of |-> l.of, at |-> l.at]
              \/ Crowded(C, limit, l.at)
  <2>1. CASE l \in A
    <3>1. Entry("status", l.of, l.at, "status") \in C
      BY <1>4, <2>1
    <3> QED
      BY <3>1 DEF Entry, Told
  <2>2. CASE l \notin A
    <3>1. Cardinality(C) = limit
      BY <1>3, <1>6, <2>2
    <3>2. \A e \in C : e.at >= l.at
      BY <1>3, <1>5, <2>2 DEF Entry
    <3>3. limit >= limit
      OBVIOUS
    <3> QED
      BY <3>1, <3>2, <3>3 DEF Crowded
  <2> QED
    BY <2>1, <2>2
<1> QED
  BY <1>7, <1>9, <1>10 DEF C

\* The member's one row.
LEMMA StaysTell ==
    ASSUME HistoriesInv
    PROVE  /\ Sound(StayEntries)
           /\ \A e \in StayEntries : \/ e.id = "joined" /\ e.what = "added"
                                     \/ e.id = "left" /\ e.what = "removed"
           /\ membership.added # 0 => Entry("joined", 0, membership.added, "added") \in StayEntries
           /\ membership.removed # 0 =>
                Entry("left", 0, membership.removed, "removed") \in StayEntries
<1> DEFINE j == Entry("joined", 0, membership.added, "added")
           l == Entry("left", 0, membership.removed, "removed")
<1>1. StayEntries = {e \in {j, l} : e.at # 0}
  BY DEF StayEntries
<1>2. /\ j.id = "joined" /\ j.what = "added" /\ j.at = membership.added /\ j.of = 0
      /\ l.id = "left" /\ l.what = "removed" /\ l.at = membership.removed /\ l.of = 0
      /\ Told(j) = [what |-> "added", of |-> 0, at |-> membership.added]
      /\ Told(l) = [what |-> "removed", of |-> 0, at |-> membership.removed]
  BY DEF Entry, Told
<1>3. membership.added \in Int /\ membership.removed \in Int
  BY DEF HistoriesInv, HistoriesTypeOK
<1>4. /\ membership.added # 0 => Told(j) \in past
      /\ membership.removed # 0 => Told(l) \in past
  BY <1>2 DEF HistoriesInv, RowsAreTrue, Happened
<1>5. "joined" \in Ids /\ "left" \in Ids /\ Told(j) # Told(l)
  BY DEF Ids, Entry, Told
<1>6. IsFiniteSet(StayEntries)
  <2>1. IsFiniteSet({j, l})
    BY TwoAreFinite
  <2> HIDE DEF j, l
  <2> QED
    BY <1>1, <2>1, FS_Subset
<1> HIDE DEF j, l
<1>7. Sound(StayEntries)
  <2>1. ASSUME NEW e \in StayEntries
        PROVE  e.at \in Int /\ e.of \in Int /\ e.id \in Ids /\ (Planned(e) \/ Told(e) \in past)
    BY <1>1, <1>2, <1>3, <1>4, <1>5
  <2>2. ASSUME NEW e \in StayEntries, NEW f \in StayEntries,
               (e.at = f.at /\ e.id = f.id /\ e.of = f.of) \/ Told(e) = Told(f)
        PROVE  e = f
    BY <1>1, <1>2, <1>5, <2>2
  <2> QED
    BY <1>6, <2>1, <2>2 DEF Sound
<1>8. \A e \in StayEntries : \/ e.id = "joined" /\ e.what = "added"
                             \/ e.id = "left" /\ e.what = "removed"
  BY <1>1, <1>2
<1> QED
  BY <1>1, <1>2, <1>7, <1>8 DEF j, l

\* The issue's one row.
LEMMA IssuesTell ==
    ASSUME HistoriesInv
    PROVE  /\ Sound(IssueEntries)
           /\ \A e \in IssueEntries : \/ e.id = "issue" /\ e.what = "reported"
                                      \/ e.id = "settled" /\ e.what = "resolved"
           /\ raised.reported # 0 => Entry("issue", 0, raised.reported, "reported") \in IssueEntries
           /\ raised.resolved # 0 =>
                Entry("settled", 0, raised.resolved, "resolved") \in IssueEntries
<1> DEFINE j == Entry("issue", 0, raised.reported, "reported")
           l == Entry("settled", 0, raised.resolved, "resolved")
<1>1. IssueEntries = {e \in {j, l} : e.at # 0}
  BY DEF IssueEntries
<1>2. /\ j.id = "issue" /\ j.what = "reported" /\ j.at = raised.reported /\ j.of = 0
      /\ l.id = "settled" /\ l.what = "resolved" /\ l.at = raised.resolved /\ l.of = 0
      /\ Told(j) = [what |-> "reported", of |-> 0, at |-> raised.reported]
      /\ Told(l) = [what |-> "resolved", of |-> 0, at |-> raised.resolved]
  BY DEF Entry, Told
<1>3. raised.reported \in Int /\ raised.resolved \in Int
  BY DEF HistoriesInv, HistoriesTypeOK
<1>4. /\ raised.reported # 0 => Told(j) \in past
      /\ raised.resolved # 0 => Told(l) \in past
  BY <1>2 DEF HistoriesInv, RowsAreTrue, Happened
<1>5. "issue" \in Ids /\ "settled" \in Ids /\ Told(j) # Told(l)
  BY DEF Ids, Entry, Told
<1>6. IsFiniteSet(IssueEntries)
  <2>1. IsFiniteSet({j, l})
    BY TwoAreFinite
  <2> HIDE DEF j, l
  <2> QED
    BY <1>1, <2>1, FS_Subset
<1> HIDE DEF j, l
<1>7. Sound(IssueEntries)
  <2>1. ASSUME NEW e \in IssueEntries
        PROVE  e.at \in Int /\ e.of \in Int /\ e.id \in Ids /\ (Planned(e) \/ Told(e) \in past)
    BY <1>1, <1>2, <1>3, <1>4, <1>5
  <2>2. ASSUME NEW e \in IssueEntries, NEW f \in IssueEntries,
               (e.at = f.at /\ e.id = f.id /\ e.of = f.of) \/ Told(e) = Told(f)
        PROVE  e = f
    BY <1>1, <1>2, <1>5, <2>2
  <2> QED
    BY <1>6, <2>1, <2>2 DEF Sound
<1>8. \A e \in IssueEntries : \/ e.id = "issue" /\ e.what = "reported"
                              \/ e.id = "settled" /\ e.what = "resolved"
  BY <1>1, <1>2
<1> QED
  BY <1>1, <1>2, <1>7, <1>8 DEF j, l

\* The bookings' milestones.
LEMMA MilestonesTell ==
    ASSUME HistoriesInv, NEW limit \in Nat
    PROVE  /\ Sound(BookingEntries(limit))
           /\ \A e \in BookingEntries(limit) : \/ e.id = "booking" /\ e.what = "booked"
                                               \/ e.id = "handover" /\ e.what = "collected"
                                               \/ e.id = "return" /\ e.what = "returned"
                                               \/ e.id = "cancel" /\ e.what = "cancelled"
           /\ \A b \in NewestBookings(limit) :
                /\ booked[b].created # 0 =>
                     Entry("booking", b, booked[b].created, "booked") \in BookingEntries(limit)
                /\ booked[b].collection # 0 =>
                     Entry("handover", b, booked[b].collection, "collected")
                       \in BookingEntries(limit)
                /\ booked[b].returned # 0 =>
                     Entry("return", b, booked[b].returned, "returned") \in BookingEntries(limit)
                /\ booked[b].cancelled # 0 =>
                     Entry("cancel", b, booked[b].cancelled, "cancelled")
                       \in BookingEntries(limit)
<1> DEFINE N == NewestBookings(limit)
           E == BookingEntries(limit)
           m1(b) == Entry("booking", b, booked[b].created, "booked")
           m2(b) == Entry("handover", b, booked[b].collection, "collected")
           m3(b) == Entry("return", b, booked[b].returned, "returned")
           m4(b) == Entry("cancel", b, booked[b].cancelled, "cancelled")
           four == [b \in N |-> {m1(b), m2(b), m3(b), m4(b)}]
           all == UNION {{m1(b), m2(b), m3(b), m4(b)} : b \in N}
<1>1. N \subseteq TrailBookings
  BY DEF NewestBookings, Newest
<1>2. E = {e \in all : e.at # 0}
  BY DEF BookingEntries
<1>3. \A b \in N : /\ m1(b) = [id |-> "booking", of |-> b, at |-> booked[b].created, what |-> "booked"]
                   /\ m2(b) = [id |-> "handover", of |-> b, at |-> booked[b].collection,
                               what |-> "collected"]
                   /\ m3(b) = [id |-> "return", of |-> b, at |-> booked[b].returned,
                               what |-> "returned"]
                   /\ m4(b) = [id |-> "cancel", of |-> b, at |-> booked[b].cancelled,
                               what |-> "cancelled"]
  BY DEF Entry
<1>4. IsFiniteSet(all)
  <2> DEFINE quads == {{m1(b), m2(b), m3(b), m4(b)} : b \in N}
  <2>1. IsFiniteSet(N)
    BY <1>1, HistoriesAssumption, FS_Subset
  <2>2. four \in Surjection(N, quads)
    <3>1. four \in [N -> quads] /\ \A q \in quads : \E b \in N : four[b] = q
      OBVIOUS
    <3> HIDE DEF four, quads
    <3> QED
      BY <3>1, Fun_IsSurj
  <2> HIDE DEF four
  <2>3. IsFiniteSet(quads)
    <3> HIDE DEF quads
    <3> QED
      BY <2>1, <2>2, FS_Surjection
  <2>4. ASSUME NEW q \in quads PROVE IsFiniteSet(q)
    <3>1. PICK b \in N : q = {m1(b), m2(b), m3(b), m4(b)}
      OBVIOUS
    <3> HIDE DEF m1, m2, m3, m4
    <3>2. IsFiniteSet({m1(b), m2(b)}) /\ IsFiniteSet({m3(b), m4(b)})
      BY TwoAreFinite
    <3>3. IsFiniteSet({m1(b), m2(b)} \cup {m3(b), m4(b)})
      BY <3>2, FS_Union
    <3>4. q = {m1(b), m2(b)} \cup {m3(b), m4(b)}
      BY <3>1
    <3> QED
      BY <3>3, <3>4
  <2>5. all = UNION quads
    OBVIOUS
  <2> HIDE DEF quads
  <2> QED
    BY <2>3, <2>4, <2>5, FS_UNION
<1>5. \A e \in E : e.at # 0 /\ \E b \in N : e = m1(b) \/ e = m2(b) \/ e = m3(b) \/ e = m4(b)
  BY <1>2
<1>6. \A b \in N : \A e \in {m1(b), m2(b), m3(b), m4(b)} : e.at # 0 => e \in E
  BY <1>2
<1> HIDE DEF E, N, all, m1, m2, m3, m4
<1>7. IsFiniteSet(E)
  BY <1>2, <1>4, FS_Subset
<1>8. \A b \in N : /\ b \in Int /\ booked[b].created \in Int /\ booked[b].collection \in Int
                   /\ booked[b].returned \in Int /\ booked[b].cancelled \in Int
  <2>1. booked \in [TrailBookings -> [created : Nat, collection : Nat,
                                      returned : Nat, cancelled : Nat]]
    BY DEF HistoriesInv, HistoriesTypeOK
  <2> QED
    BY <1>1, <2>1, HistoriesAssumption
<1>9. \A e \in E : \/ e.id = "booking" /\ e.what = "booked"
                   \/ e.id = "handover" /\ e.what = "collected"
                   \/ e.id = "return" /\ e.what = "returned"
                   \/ e.id = "cancel" /\ e.what = "cancelled"
  BY <1>3, <1>5
<1>10. ASSUME NEW e \in E PROVE e.at \in Int /\ e.of \in Int /\ e.id \in Ids
  <2>1. PICK b \in N : e = m1(b) \/ e = m2(b) \/ e = m3(b) \/ e = m4(b)
    BY <1>5
  <2>2. e.at \in Int /\ e.of \in Int
    BY <1>3, <1>8, <2>1
  <2> QED
    BY <1>9, <2>2 DEF Ids
<1>11. ASSUME NEW e \in E PROVE Planned(e) \/ Told(e) \in past
  <2>1. PICK b \in N : e.at # 0 /\ (e = m1(b) \/ e = m2(b) \/ e = m3(b) \/ e = m4(b))
    BY <1>5
  <2>2. /\ booked[b].created # 0 => Happened("booked", b, booked[b].created)
        /\ booked[b].returned # 0 => Happened("returned", b, booked[b].returned)
        /\ booked[b].cancelled # 0 => Happened("cancelled", b, booked[b].cancelled)
        /\ inspected[b]["HANDOVER"].completed # 0 => Happened("collected", b, booked[b].collection)
    BY <1>1 DEF HistoriesInv, RowsAreTrue, BookingsAreTrue
  <2>3. CASE e = m1(b)
    BY <1>3, <2>1, <2>2, <2>3 DEF Told, Happened
  <2>4. CASE e = m2(b)
    BY <1>3, <2>1, <2>2, <2>4 DEF Told, Happened, Planned
  <2>5. CASE e = m3(b)
    BY <1>3, <2>1, <2>2, <2>5 DEF Told, Happened
  <2>6. CASE e = m4(b)
    BY <1>3, <2>1, <2>2, <2>6 DEF Told, Happened
  <2> QED
    BY <2>1, <2>3, <2>4, <2>5, <2>6
<1>12. ASSUME NEW e \in E, NEW f \in E, e.id = f.id, e.of = f.of PROVE e = f
  <2>1. PICK b \in N : e = m1(b) \/ e = m2(b) \/ e = m3(b) \/ e = m4(b)
    BY <1>5
  <2>2. PICK o \in N : f = m1(o) \/ f = m2(o) \/ f = m3(o) \/ f = m4(o)
    BY <1>5
  <2>3. b = o
    BY <1>3, <1>12, <2>1, <2>2
  <2> QED
    BY <1>3, <1>12, <2>1, <2>2, <2>3
<1>13. ASSUME NEW e \in E, NEW f \in E, Told(e) = Told(f) PROVE e = f
  <2>1. e.what = f.what /\ e.of = f.of
    BY <1>13 DEF Told
  <2>2. e.id = f.id
    BY <1>9, <2>1
  <2> QED
    BY <1>12, <2>1, <2>2
<1>14. Sound(E)
  BY <1>7, <1>10, <1>11, <1>12, <1>13 DEF Sound
<1>15. ASSUME NEW b \in N
       PROVE  /\ booked[b].created # 0 => m1(b) \in E
              /\ booked[b].collection # 0 => m2(b) \in E
              /\ booked[b].returned # 0 => m3(b) \in E
              /\ booked[b].cancelled # 0 => m4(b) \in E
  BY <1>3, <1>6
<1> QED
  BY <1>9, <1>14, <1>15 DEF E, N, m1, m2, m3, m4

WhatOf(d) == IF d = "HANDOVER" THEN "collected" ELSE "returned"
LineEntry(l) ==
    LET row == inspected[l[1]][l[2]] IN
    IF row.completed = 0 THEN Entry("inspection", l[1], row.started, "started")
    ELSE Entry("inspection", l[1], row.completed, WhatOf(l[2]))

\* The inspections of the member.
LEMMA LinesTell ==
    ASSUME HistoriesInv, NEW limit \in Nat
    PROVE  /\ Sound(LineEntries(limit))
           /\ \A e \in LineEntries(limit) :
                e.id = "inspection" /\ e.what \in {"started", "collected", "returned"}
           /\ \A b \in TrailBookings, d \in Documents :
                <<b, d>> \in NewestLines(limit) /\ inspected[b][d].completed # 0 =>
                  Entry("inspection", b, inspected[b][d].completed, WhatOf(d))
                    \in LineEntries(limit)
<1> DEFINE N == NewestLines(limit)
           E == LineEntries(limit)
           g == [l \in N |-> LineEntry(l)]
<1>1. /\ N \subseteq TrailBookings \X Documents
      /\ \A l \in N : inspected[l[1]][l[2]].started # 0
  BY DEF NewestLines, Newest
<1>2. E = {LineEntry(l) : l \in N}
  BY DEF LineEntries, LineEntry, WhatOf
<1>3. \A l \in N : l[1] \in TrailBookings /\ l[2] \in Documents /\ l = <<l[1], l[2]>>
  BY <1>1
<1> HIDE DEF N, E
<1>4. IsFiniteSet(E)
  <2>1. IsFiniteSet(Documents)
    BY TwoAreFinite DEF Documents
  <2>2. IsFiniteSet(TrailBookings \X Documents)
    BY <2>1, HistoriesAssumption, FS_Product
  <2>3. IsFiniteSet(N)
    BY <1>1, <2>2, FS_Subset
  <2>4. g \in [N -> E] /\ \A e \in E : \E l \in N : g[l] = e
    BY <1>2
  <2> HIDE DEF g
  <2>5. g \in Surjection(N, E)
    BY <2>4, Fun_IsSurj
  <2> QED
    BY <2>3, <2>5, FS_Surjection
<1>5. ASSUME NEW l \in N
      PROVE  LET e == LineEntry(l) IN
             /\ e.at \in Int /\ e.of \in Int /\ e.id = "inspection" /\ Told(e) \in past
             /\ e.what \in {"started", "collected", "returned"}
  <2> DEFINE b == l[1]
             d == l[2]
             row == inspected[b][d]
  <2>1. b \in TrailBookings /\ d \in Documents /\ row.started # 0
    BY <1>1, <1>3
  <2> HIDE DEF b, d
  <2>2. b \in Int /\ row.started \in Int /\ row.completed \in Int
    <3>1. inspected \in [TrailBookings -> [Documents -> [started : Nat, completed : Nat]]]
      BY DEF HistoriesInv, HistoriesTypeOK
    <3> QED
      BY <2>1, <3>1, HistoriesAssumption
  <2>3. Happened("started", b, row.started)
    BY <2>1 DEF HistoriesInv, RowsAreTrue, BookingsAreTrue
  <2>4. row.completed # 0 => Happened(WhatOf(d), b, row.completed)
    BY <2>1 DEF HistoriesInv, RowsAreTrue, BookingsAreTrue, WhatOf, Documents
  <2>5. LineEntry(l) = IF row.completed = 0 THEN Entry("inspection", b, row.started, "started")
                       ELSE Entry("inspection", b, row.completed, WhatOf(d))
    BY DEF LineEntry, b, d
  <2> QED
    BY <2>2, <2>3, <2>4, <2>5 DEF Entry, Told, Happened, WhatOf
<1>6. \A e \in E : /\ e.at \in Int /\ e.of \in Int /\ e.id = "inspection" /\ Told(e) \in past
                   /\ e.what \in {"started", "collected", "returned"}
  BY <1>2, <1>5
<1>7. \A e \in E : e = Entry(e.id, e.of, e.at, e.what)
  BY <1>2 DEF LineEntry, Entry
<1>8. ASSUME NEW e \in E, NEW f \in E, e.at = f.at, e.of = f.of PROVE e = f
  <2> DEFINE p == Told(e)
             q == Told(f)
  <2>1. /\ p.at = e.at /\ p.what = e.what /\ q.at = f.at /\ q.what = f.what
        /\ p \in past /\ q \in past
    BY <1>6 DEF Told
  <2> HIDE DEF p, q
  <2>2. {p.what, q.what} \cap {"status", "kit status"} = {}
    BY <1>6, <2>1
  <2>3. p = q
    BY <1>8, <2>1, <2>2 DEF HistoriesInv, RowsComeOneByOne
  <2> QED
    BY <1>6, <1>7, <1>8, <2>1, <2>3
<1>9. Sound(E)
  <2>1. "inspection" \in Ids
    BY DEF Ids
  <2>2. \A e, f \in E : Told(e) = Told(f) => e.at = f.at /\ e.of = f.of
    BY DEF Told
  <2> QED
    BY <1>4, <1>6, <1>8, <2>1, <2>2 DEF Sound
<1>10. ASSUME NEW b \in TrailBookings, NEW d \in Documents, <<b, d>> \in N,
              inspected[b][d].completed # 0
       PROVE  Entry("inspection", b, inspected[b][d].completed, WhatOf(d)) \in E
  <2>1. LineEntry(<<b, d>>) = Entry("inspection", b, inspected[b][d].completed, WhatOf(d))
    BY <1>10 DEF LineEntry
  <2> QED
    BY <1>2, <1>10, <2>1
<1> QED
  BY <1>6, <1>9, <1>10 DEF E, N

LEMMA CrowdedInAll ==
    ASSUME NEW X, NEW Y, X \subseteq Y, NEW limit, NEW t, Crowded(X, limit, t)
    PROVE  Crowded(Y, limit, t)
BY DEF Crowded

LEMMA TrailsAreAbout ==
    /\ About("Kit") = {"Kit", "kit status", "added", "removed", "booked", "collected", "returned",
                       "cancelled", "reported", "resolved"}
    /\ About("Asset") = {"Asset", "status", "added", "removed", "collected", "returned",
                         "reported", "resolved"}
    /\ About("EditorProfile") = {"EditorProfile", "booked", "collected", "returned", "cancelled"}
BY DEF About

\* A milestone that is not cut off is told, on the trails that tell of bookings.
LEMMA MilestonesAreTold ==
    ASSUME HistoriesInv, NEW on \in {"Kit", "EditorProfile"}, NEW limit \in Nat,
           NEW p \in past, p.what \in {"booked", "collected", "returned", "cancelled"},
           ~CutOff(on, p, limit)
    PROVE  \E e \in BookingEntries(limit) : Told(e) = p
<1>1. p = [what |-> p.what, of |-> p.of, at |-> p.at] /\ p.at # 0
  BY RowsAreTyped
<1>2. /\ p.of \in TrailBookings
      /\ p.what = "booked" => booked[p.of].created = p.at
      /\ p.what = "cancelled" => booked[p.of].cancelled = p.at
      /\ p.what = "collected" => booked[p.of].collection = p.at
      /\ p.what = "returned" => booked[p.of].returned = p.at
  BY DEF HistoriesInv, PastIsInRows, IsLogged, IsOnRecord
<1>3. p.of \in NewestBookings(limit)
  BY <1>2 DEF CutOff
<1>4. \E id \in Ids : Entry(id, p.of, p.at, p.what) \in BookingEntries(limit)
  <2>1. {"booking", "cancel", "handover", "return"} \subseteq Ids
    BY DEF Ids
  <2> QED
    BY <1>1, <1>2, <1>3, <2>1, MilestonesTell
<1>5. \A id : Told(Entry(id, p.of, p.at, p.what)) = p
  BY <1>1 DEF Told, Entry
<1> QED
  BY <1>4, <1>5

\* So is what befell the issue, if the row still says it.
LEMMA IssuesAreTold ==
    ASSUME HistoriesInv, NEW on, NEW p \in past, p.what \in {"reported", "resolved"},
           ~Rewritten(on, p)
    PROVE  \E e \in IssueEntries : Told(e) = p
<1>1. p = [what |-> p.what, of |-> p.of, at |-> p.at] /\ p.at # 0
  BY RowsAreTyped
<1>2. p.of = 0 /\ (p.what = "reported" => raised.reported = p.at)
  BY DEF HistoriesInv, PastIsInRows, IsLogged, IsOnRecord
<1>3. p.what = "resolved" => raised.resolved = p.at
  BY DEF Rewritten
<1>4. \E id \in Ids : Entry(id, p.of, p.at, p.what) \in IssueEntries
  <2>1. {"issue", "settled"} \subseteq Ids
    BY DEF Ids
  <2> QED
    BY <1>1, <1>2, <1>3, <2>1, IssuesTell
<1>5. \A id : Told(Entry(id, p.of, p.at, p.what)) = p
  BY <1>1 DEF Told, Entry
<1> QED
  BY <1>4, <1>5

\* And what the audit log holds, unless newer entries crowd it out.
LEMMA AuditsAreTold ==
    ASSUME HistoriesInv, NEW on \in {"Kit", "Asset", "EditorProfile"}, NEW limit \in Nat,
           NEW p \in past, AuditOf(on, p.what, p)
    PROVE  \/ \E e \in AuditEntries(AuditsOf(on, limit)) : Told(e) = p
           \/ Crowded(AuditEntries(AuditsOf(on, limit)), limit, p.at)
<1> DEFINE a == [on |-> on, what |-> p.what, of |-> p.of, at |-> p.at]
<1>1. p = [what |-> p.what, of |-> p.of, at |-> p.at]
  BY RowsAreTyped
<1>2. a \in audit /\ a.on = on /\ a.what = p.what /\ a.of = p.of /\ a.at = p.at
  BY DEF AuditOf
<1> HIDE DEF a
<1> QED
  BY <1>1, <1>2, AuditsTell

LEMMA EditorActivityTells ==
    ASSUME HistoriesInv, NEW limit \in Nat
    PROVE  TellsThePast("EditorProfile", EditorActivity(limit), limit)
<1> DEFINE on == "EditorProfile"
           X == AuditEntries(AuditsOf(on, limit))
           Y == BookingEntries(limit)
<1>1. EditorActivity(limit) = FirstOf(X \cup Y, limit)
  BY DEF EditorActivity
<1>2. /\ Sound(X) /\ \A e \in X : e.id = "audit" /\ e.what = "EditorProfile"
      /\ Sound(Y) /\ \A e \in Y : e.id # "audit" /\ e.what # "EditorProfile"
  <2>1. Sound(X) /\ \A e \in X : e.id = "audit" /\ e.what \in Whats(on)
    BY AuditsTell
  <2>2. Sound(Y) /\ \A e \in Y : e.id # "audit" /\ e.what # "EditorProfile"
    BY MilestonesTell
  <2>3. Whats(on) = {"EditorProfile"}
    BY DEF Whats
  <2> QED
    BY <2>1, <2>2, <2>3
<1> HIDE DEF X, Y
<1>3. Sound(X \cup Y)
  <2>1. \A e \in X, f \in Y : e.id # f.id /\ Told(e) # Told(f)
    BY <1>2 DEF Told
  <2> QED
    BY <1>2, <2>1, SoundTogether
<1>4. ASSUME NEW p \in past, p.what \in About(on)
      PROVE  \/ \E e \in X \cup Y : Told(e) = p
             \/ Crowded(X \cup Y, limit, p.at)
             \/ Rewritten(on, p) \/ CutOff(on, p, limit)
  <2>1. CASE p.what = "EditorProfile"
    <3>1. AuditOf(on, p.what, p)
      BY <2>1 DEF HistoriesInv, PastIsInRows, IsLogged, IsOnRecord
    <3>2. (\E e \in X : Told(e) = p) \/ Crowded(X, limit, p.at)
      BY <3>1, AuditsAreTold DEF X
    <3> QED
      BY <3>2, CrowdedInAll
  <2>2. CASE p.what \in {"booked", "collected", "returned", "cancelled"}
    BY <2>2, MilestonesAreTold DEF Y
  <2> QED
    BY <1>4, <2>1, <2>2, TrailsAreAbout
<1>5. \A p \in past : p.at \in Int
  BY RowsAreTyped
<1> QED
  BY <1>1, <1>3, <1>4, <1>5, EntriesTell

LEMMA KitHistoryTells ==
    ASSUME HistoriesInv, NEW limit \in Nat
    PROVE  TellsThePast("Kit", KitHistory(limit), limit)
<1> DEFINE on == "Kit"
           A == AuditsOf(on, limit)
           X == AuditEntries(A)
           S == UnauditedStays(A)
           Y == BookingEntries(limit)
           Z == IssueEntries
           E == X \cup S \cup Y \cup Z
<1>1. KitHistory(limit) = FirstOf(E, limit)
  BY DEF KitHistory
<1>2. /\ A \subseteq {a \in audit : a.on = on}
      /\ Sound(X) /\ \A e \in X : /\ e.id = "audit"
                                  /\ e.what \in {"Kit", "added", "removed", "kit status"}
      /\ \A e \in X : \E a \in A : e.what = a.what
  <2>1. \A e \in X : \E a \in A : e.what = a.what
    BY DEF AuditEntries, Entry
  <2> QED
    BY <2>1, AuditsTell DEF Whats
<1>3. /\ S \subseteq StayEntries
      /\ \A e \in StayEntries : e \in S <=> \A a \in A : a.what # e.what
  BY DEF UnauditedStays, StayEntries
<1>4. /\ Sound(S)
      /\ \A e \in S : e.id \in {"joined", "left"} /\ e.what \in {"added", "removed"}
      /\ \A e \in S, a \in A : a.what # e.what
  BY <1>3, StaysTell, SoundInPart
<1>5. /\ Sound(Y)
      /\ \A e \in Y : /\ e.id \in {"booking", "handover", "return", "cancel"}
                      /\ e.what \in {"booked", "collected", "returned", "cancelled"}
  BY MilestonesTell
<1>6. /\ Sound(Z)
      /\ \A e \in Z : e.id \in {"issue", "settled"} /\ e.what \in {"reported", "resolved"}
  BY IssuesTell
<1> HIDE DEF A, X, S, Y, Z
<1>7. Sound(E)
  <2>1. Sound(X \cup S)
    <3>1. ASSUME NEW e \in X, NEW f \in S PROVE e.id # f.id /\ e.what # f.what
      <4>1. PICK a \in A : e.what = a.what
        BY <1>2
      <4>2. f.id \in {"joined", "left"} /\ a.what # f.what
        BY <1>4
      <4>3. e.id = "audit"
        BY <1>2
      <4> QED
        BY <4>1, <4>2, <4>3
    <3>2. \A e \in X, f \in S : e.id # f.id /\ Told(e) # Told(f)
      BY <3>1 DEF Told
    <3> QED
      BY <1>2, <1>4, <3>2, SoundTogether
  <2>2. Sound((X \cup S) \cup Y)
    <3>1. \A e \in X \cup S, f \in Y : e.id # f.id /\ e.what # f.what
      BY <1>2, <1>4, <1>5
    <3>2. \A e \in X \cup S, f \in Y : e.id # f.id /\ Told(e) # Told(f)
      BY <3>1 DEF Told
    <3> QED
      BY <1>5, <2>1, <3>2, SoundTogether
  <2>3. \A e \in X \cup S \cup Y, f \in Z : e.id # f.id /\ e.what # f.what
    BY <1>2, <1>4, <1>5, <1>6
  <2>4. \A e \in X \cup S \cup Y, f \in Z : e.id # f.id /\ Told(e) # Told(f)
    BY <2>3 DEF Told
  <2> QED
    BY <1>6, <2>2, <2>4, SoundTogether
<1>8. ASSUME NEW p \in past, p.what \in About(on),
             ~Rewritten(on, p), ~CutOff(on, p, limit)
      PROVE  (\E e \in E : Told(e) = p) \/ Crowded(E, limit, p.at)
  <2>1. ASSUME AuditOf(on, p.what, p)
        PROVE  (\E e \in E : Told(e) = p) \/ Crowded(E, limit, p.at)
    <3>1. (\E e \in X : Told(e) = p) \/ Crowded(X, limit, p.at)
      BY <2>1, AuditsAreTold DEF A, X
    <3> QED
      BY <3>1, CrowdedInAll
  <2>2. CASE p.what \in {"Kit", "removed", "kit status"}
    <3>1. AuditOf(on, p.what, p)
      BY <2>2 DEF HistoriesInv, PastIsInRows, IsLogged, IsOnRecord
    <3> QED
      BY <2>1, <3>1
  <2>3. CASE p.what = "added"
    <3>1. p = [what |-> "added", of |-> 0, at |-> p.at] /\ p.at # 0
      <4>1. p.of = 0
        BY <2>3 DEF HistoriesInv, PastIsInRows, IsLogged, IsOnRecord
      <4> QED
        BY <2>3, <4>1, RowsAreTyped
    <3>2. CASE \E a \in audit : a.what = "added" /\ a.at = p.at
      <4>1. PICK a \in audit : a.what = "added" /\ a.at = p.at
        BY <3>2
      <4>2. a.on = "Kit"
        BY <4>1 DEF HistoriesInv, HistoriesTypeOK, RowsComeOneByOne
      <4>3. a.of = 0
        <5>1. Happened(a.what, a.of, a.at)
          BY DEF HistoriesInv, RowsAreTrue
        <5> QED
          BY <4>1, <5>1 DEF HistoriesInv, PastIsInRows, IsLogged, IsOnRecord, Happened
      <4>4. AuditOf(on, p.what, p)
        BY <3>1, <4>1, <4>2, <4>3, RowsAreTyped DEF AuditOf
      <4> QED
        BY <2>1, <4>4
    <3>3. CASE \A a \in audit : ~(a.what = "added" /\ a.at = p.at)
      <4>1. membership.added = p.at
        BY <1>8, <2>3, <3>3 DEF Rewritten
      <4>2. \A a \in audit : a.what # "added"
        BY <3>1, <3>3, <4>1 DEF HistoriesInv, RowsComeOneByOne
      <4> DEFINE e == Entry("joined", 0, membership.added, "added")
      <4>3. e \in StayEntries /\ e.what = "added" /\ Told(e) = p
        BY <3>1, <4>1, StaysTell DEF Entry, Told
      <4> HIDE DEF e
      <4>4. \A a \in A : a.what # e.what
        BY <1>2, <4>2, <4>3
      <4>5. e \in S
        BY <1>3, <4>3, <4>4
      <4> QED
        BY <4>3, <4>5
    <3> QED
      BY <3>2, <3>3
  <2>4. CASE p.what \in {"booked", "collected", "returned", "cancelled"}
    <3>1. \E e \in Y : Told(e) = p
      BY <1>8, <2>4, MilestonesAreTold DEF Y
    <3> QED
      BY <3>1
  <2>5. CASE p.what \in {"reported", "resolved"}
    <3>1. \E e \in Z : Told(e) = p
      BY <1>8, <2>5, IssuesAreTold DEF Z
    <3> QED
      BY <3>1
  <2> QED
    BY <1>8, <2>2, <2>3, <2>4, <2>5, TrailsAreAbout
<1>9. \A p \in past : p.at \in Int
  BY RowsAreTyped
<1> HIDE DEF E
<1> QED
  BY <1>1, <1>7, <1>8, <1>9, EntriesTell

LEMMA AssetHistoryTells ==
    ASSUME HistoriesInv, NEW limit \in Nat
    PROVE  TellsThePast("Asset", AssetHistory(limit), limit)
<1> DEFINE on == "Asset"
           X == AuditEntries(AuditsOf(on, limit))
           T == StatusEntries(limit)
           S == StayEntries
           L == LineEntries(limit)
           Z == IssueEntries
           E == X \cup T \cup S \cup L \cup Z
<1>1. AssetHistory(limit) = FirstOf(E, limit)
  BY DEF AssetHistory
<1>2. Sound(X) /\ \A e \in X : e.id = "audit" /\ e.what = "Asset"
  <2>1. Sound(X) /\ \A e \in X : e.id = "audit" /\ e.what \in Whats(on)
    BY AuditsTell
  <2>2. Whats(on) = {"Asset"}
    BY DEF Whats
  <2> QED
    BY <2>1, <2>2
<1>3. Sound(T) /\ \A e \in T : e.id = "status" /\ e.what = "status"
  BY StatusesTell
<1>4. Sound(S) /\ \A e \in S : e.id \in {"joined", "left"} /\ e.what \in {"added", "removed"}
  BY StaysTell
<1>5. Sound(L) /\ \A e \in L : /\ e.id = "inspection"
                               /\ e.what \in {"started", "collected", "returned"}
  BY LinesTell
<1>6. Sound(Z) /\ \A e \in Z : e.id \in {"issue", "settled"} /\ e.what \in {"reported", "resolved"}
  BY IssuesTell
<1> HIDE DEF X, T, S, L, Z
<1>7. Sound(E)
  <2>1. Sound(X \cup T)
    <3>1. \A e \in X, f \in T : e.id # f.id /\ Told(e) # Told(f)
      BY <1>2, <1>3 DEF Told
    <3> QED
      BY <1>2, <1>3, <3>1, SoundTogether
  <2>2. Sound((X \cup T) \cup S)
    <3>1. \A e \in X \cup T, f \in S : e.id # f.id /\ e.what # f.what
      BY <1>2, <1>3, <1>4
    <3>2. \A e \in X \cup T, f \in S : e.id # f.id /\ Told(e) # Told(f)
      BY <3>1 DEF Told
    <3> QED
      BY <1>4, <2>1, <3>2, SoundTogether
  <2>3. Sound((X \cup T \cup S) \cup L)
    <3>1. \A e \in X \cup T \cup S, f \in L : e.id # f.id /\ e.what # f.what
      BY <1>2, <1>3, <1>4, <1>5
    <3>2. \A e \in X \cup T \cup S, f \in L : e.id # f.id /\ Told(e) # Told(f)
      BY <3>1 DEF Told
    <3> QED
      BY <1>5, <2>2, <3>2, SoundTogether
  <2>4. \A e \in X \cup T \cup S \cup L, f \in Z : e.id # f.id /\ e.what # f.what
    BY <1>2, <1>3, <1>4, <1>5, <1>6
  <2>5. \A e \in X \cup T \cup S \cup L, f \in Z : e.id # f.id /\ Told(e) # Told(f)
    BY <2>4 DEF Told
  <2> QED
    BY <1>6, <2>3, <2>5, SoundTogether
<1>8. ASSUME NEW p \in past, p.what \in About(on),
             ~Rewritten(on, p), ~CutOff(on, p, limit)
      PROVE  (\E e \in E : Told(e) = p) \/ Crowded(E, limit, p.at)
  <2>0. p = [what |-> p.what, of |-> p.of, at |-> p.at] /\ p.at # 0
    BY RowsAreTyped
  <2>1. CASE p.what = "Asset"
    <3>1. AuditOf(on, p.what, p)
      BY <2>1 DEF HistoriesInv, PastIsInRows, IsLogged, IsOnRecord
    <3>2. (\E e \in X : Told(e) = p) \/ Crowded(X, limit, p.at)
      BY <3>1, AuditsAreTold DEF X
    <3> QED
      BY <3>2, CrowdedInAll
  <2>2. CASE p.what = "status"
    <3> DEFINE l == [of |-> p.of, at |-> p.at]
    <3>1. l \in statusLog /\ p = [what |-> "status", of |-> l.of, at |-> l.at]
      BY <2>0, <2>2 DEF HistoriesInv, PastIsInRows, IsLogged, IsOnRecord
    <3> HIDE DEF l
    <3>2. (\E e \in T : Told(e) = p) \/ Crowded(T, limit, l.at)
      BY <3>1, StatusesTell DEF T
    <3>3. l.at = p.at
      BY DEF l
    <3> QED
      BY <3>2, <3>3, CrowdedInAll
  <2>3. CASE p.what \in {"added", "removed"}
    <3>1. p.of = 0
      BY <2>3 DEF HistoriesInv, PastIsInRows, IsLogged, IsOnRecord
    <3>2. /\ p.what = "added" => membership.added = p.at
          /\ p.what = "removed" => membership.removed = p.at
      BY <1>8 DEF Rewritten
    <3>3. \E id \in Ids : Entry(id, p.of, p.at, p.what) \in S
      <4>1. {"joined", "left"} \subseteq Ids
        BY DEF Ids
      <4> QED
        BY <2>0, <2>3, <3>1, <3>2, <4>1, StaysTell DEF S
    <3>4. \A id : Told(Entry(id, p.of, p.at, p.what)) = p
      BY <2>0 DEF Told, Entry
    <3> QED
      BY <3>3, <3>4
  <2>4. CASE p.what \in {"collected", "returned"}
    <3> DEFINE d == IF p.what = "collected" THEN "HANDOVER" ELSE "RETURN"
    <3>1. /\ p.of \in TrailBookings /\ d \in Documents /\ WhatOf(d) = p.what
          /\ inspected[p.of][d].completed = p.at
      BY <2>4 DEF HistoriesInv, PastIsInRows, IsLogged, IsOnRecord, Documents, WhatOf
    <3>2. <<p.of, d>> \in NewestLines(limit)
      BY <1>8, <2>4 DEF CutOff
    <3> HIDE DEF d
    <3>3. Entry("inspection", p.of, p.at, p.what) \in L
      BY <2>0, <3>1, <3>2, LinesTell DEF L
    <3>4. Told(Entry("inspection", p.of, p.at, p.what)) = p
      BY <2>0 DEF Told, Entry
    <3> QED
      BY <3>3, <3>4
  <2>5. CASE p.what \in {"reported", "resolved"}
    <3>1. \E e \in Z : Told(e) = p
      BY <1>8, <2>5, IssuesAreTold DEF Z
    <3> QED
      BY <3>1
  <2> QED
    BY <1>8, <2>1, <2>2, <2>3, <2>4, <2>5, TrailsAreAbout
<1>9. \A p \in past : p.at \in Int
  BY RowsAreTyped
<1> HIDE DEF E
<1> QED
  BY <1>1, <1>7, <1>8, <1>9, EntriesTell

Marks == {"status", "kit status"}
Subjects == {0} \cup TrailBookings

\* One thing happens, whatever else it is written down as.
LEMMA OneThingHappens ==
    ASSUME HistoriesInv, NEW whats \in SUBSET Events, NEW of \in Subjects, Happens(whats, of),
           \A v, w \in whats \ Marks : v = w
    PROVE  /\ instant' = Instant /\ Instant \in Nat /\ 1 .. instant \subseteq 1 .. Instant
           /\ Instant \in 1 .. Instant /\ 0 .. instant \subseteq 0 .. Instant
           /\ Instant \in 0 .. Instant /\ Instant # 0
           /\ past \subseteq past' /\ past' \subseteq [what : Events, of : Subjects, at : 1 .. Instant]
           /\ \A w \in whats : Happened(w, of, instant)'
           /\ \A p \in past' : p \in past \/ (p.what \in whats /\ p.of = of /\ p.at = Instant)
           /\ \A p \in past : p.at < Instant
           /\ \A p, q \in past' :
                p.at = q.at /\ {p.what, q.what} \cap Marks = {} => p = q
<1>1. /\ instant \in Nat /\ past \subseteq [what : Events, of : Subjects, at : 1 .. instant]
      /\ \A p, q \in past : p.at = q.at /\ {p.what, q.what} \cap Marks = {} => p = q
  BY DEF HistoriesInv, HistoriesTypeOK, RowsComeOneByOne, Subjects, Marks
<1>2. /\ instant' = Instant /\ Instant = instant + 1
      /\ past' = past \cup {[what |-> w, of |-> of, at |-> Instant] : w \in whats}
  BY DEF Happens, Instant
<1>3. /\ Instant \in Nat /\ 1 .. instant \subseteq 1 .. Instant /\ Instant \in 1 .. Instant
      /\ 0 .. instant \subseteq 0 .. Instant /\ Instant \in 0 .. Instant /\ Instant # 0
      /\ \A i \in 1 .. instant : i < Instant
  BY <1>1, <1>2
<1> HIDE DEF Instant
<1>4. \A p \in past : p.what \in Events /\ p.of \in Subjects /\ p.at \in 1 .. instant
                      /\ p.at < Instant
  BY <1>1, <1>3
<1>5. \A p \in past' : \/ p \in past
                       \/ \E w \in whats : p = [what |-> w, of |-> of, at |-> Instant]
  BY <1>2
<1>6. \A p \in past' : p \in past \/ (p.what \in whats /\ p.of = of /\ p.at = Instant)
  BY <1>5
<1>7. past' \subseteq [what : Events, of : Subjects, at : 1 .. Instant]
  <2>1. past \subseteq [what : Events, of : Subjects, at : 1 .. Instant]
    BY <1>1, <1>3
  <2>2. \A w \in whats : [what |-> w, of |-> of, at |-> Instant]
                           \in [what : Events, of : Subjects, at : 1 .. Instant]
    BY <1>3
  <2> QED
    BY <1>5, <2>1, <2>2
<1>8. \A w \in whats : Happened(w, of, instant)'
  BY <1>2 DEF Happened
<1>9. ASSUME NEW p \in past', NEW q \in past', p.at = q.at, {p.what, q.what} \cap Marks = {}
      PROVE  p = q
  <2>1. CASE p \in past /\ q \in past
    BY <1>1, <1>9, <2>1
  <2>2. CASE p \in past /\ q \notin past
    <3>1. q.at = Instant /\ p.at \in 1 .. instant /\ p.at < Instant
      BY <1>4, <1>6, <2>2
    <3> QED
      BY <1>1, <1>3, <1>9, <3>1
  <2>3. CASE p \notin past /\ q \in past
    <3>1. p.at = Instant /\ q.at \in 1 .. instant /\ q.at < Instant
      BY <1>4, <1>6, <2>3
    <3> QED
      BY <1>1, <1>3, <1>9, <3>1
  <2>4. CASE p \notin past /\ q \notin past
    <3>1. PICK v \in whats : p = [what |-> v, of |-> of, at |-> Instant]
      BY <1>5, <2>4
    <3>2. PICK w \in whats : q = [what |-> w, of |-> of, at |-> Instant]
      BY <1>5, <2>4
    <3>3. p.what = v /\ q.what = w
      BY <3>1, <3>2
    <3>4. v = w
      BY <1>9, <3>3
    <3> QED
      BY <3>1, <3>2, <3>4
  <2> QED
    BY <2>1, <2>2, <2>3, <2>4
<1> QED
  BY <1>2, <1>3, <1>4, <1>6, <1>7, <1>8, <1>9

\* The logs as they grow.
LEMMA LogsGrow ==
    ASSUME HistoriesInv, Instant \in Nat, Instant \in 1 .. Instant,
           1 .. instant \subseteq 1 .. Instant, instant' = Instant,
           NEW new, new \subseteq [on : {"Kit", "Asset", "EditorProfile"}, what : Events,
                                   of : Subjects, at : {Instant}],
           IsFiniteSet(new), \A a, o \in new : a = o, audit' = audit \cup new,
           NEW news, news \subseteq [of : TrailBookings, at : {Instant}],
           IsFiniteSet(news), \A l, o \in news : l = o, statusLog' = statusLog \cup news
    PROVE  /\ audit' \subseteq [on : {"Kit", "Asset", "EditorProfile"}, what : Events,
                                of : Subjects, at : 1 .. Instant]
           /\ statusLog' \subseteq [of : TrailBookings, at : 1 .. Instant]
           /\ IsFiniteSet(audit') /\ IsFiniteSet(statusLog')
           /\ \A a, o \in audit' : a.at = o.at => a = o
           /\ \A l, o \in statusLog' : l.at = o.at => l = o
<1>0. /\ audit \subseteq [on : {"Kit", "Asset", "EditorProfile"}, what : Events,
                          of : Subjects, at : 1 .. instant]
      /\ statusLog \subseteq [of : TrailBookings, at : 1 .. instant]
      /\ IsFiniteSet(audit) /\ IsFiniteSet(statusLog)
      /\ \A a, o \in audit : a.at = o.at => a = o
      /\ \A l, o \in statusLog : l.at = o.at => l = o
  BY DEF HistoriesInv, HistoriesTypeOK, RowsComeOneByOne, Subjects
<1>a. Instant \notin 1 .. instant
  BY DEF HistoriesInv, HistoriesTypeOK, Instant
<1> HIDE DEF Instant
<1>1. \A a \in audit : a.at \in 1 .. instant
  BY <1>0
<1>2. \A a \in new : a.at = Instant
  OBVIOUS
<1>3. \A l \in statusLog : l.at \in 1 .. instant
  BY <1>0
<1>4. \A l \in news : l.at = Instant
  OBVIOUS
<1>5. audit' \subseteq [on : {"Kit", "Asset", "EditorProfile"}, what : Events,
                        of : Subjects, at : 1 .. Instant]
  BY <1>0
<1>6. statusLog' \subseteq [of : TrailBookings, at : 1 .. Instant]
  BY <1>0
<1>7. IsFiniteSet(audit') /\ IsFiniteSet(statusLog')
  BY <1>0, FS_Union
<1>8. \A a, o \in audit' : a.at = o.at => a = o
  BY <1>0, <1>a, <1>1, <1>2
<1>9. \A l, o \in statusLog' : l.at = o.at => l = o
  BY <1>0, <1>a, <1>3, <1>4
<1> QED
  BY <1>5, <1>6, <1>7, <1>8, <1>9


\* An operation that is written down in the audit log only, or there and in the
\* membership row.
LEMMA AuditedStep ==
    ASSUME HistoriesInv,
           \/ \E on \in {"Kit", "Asset", "EditorProfile"} : CorrectDetails(on)
           \/ AddKitAsset \/ RemoveKitAsset
    PROVE  HistoriesInv'
<1>1. PICK on \in {"Kit", "Asset", "EditorProfile"},
           what \in {"Kit", "Asset", "EditorProfile", "added", "removed"} :
        /\ Happens({what}, 0) /\ Audited(on, what)
        /\ what \in Whats(on)
        /\ \/ what \notin {"added", "removed"} /\ UNCHANGED membership
           \/ what = "added" /\ membership' = [added |-> Instant, removed |-> 0]
           \/ what = "removed" /\ membership' = [membership EXCEPT !.removed = Instant]
        /\ UNCHANGED <<booked, inspected, raised, statusLog>>
  <2>1. ASSUME NEW on \in {"Kit", "Asset", "EditorProfile"}, CorrectDetails(on)
        PROVE  /\ Happens({on}, 0) /\ Audited(on, on) /\ on \in Whats(on)
               /\ UNCHANGED <<membership, booked, inspected, raised, statusLog>>
    BY <2>1 DEF CorrectDetails, Whats
  <2>2. ASSUME AddKitAsset
        PROVE  /\ Happens({"added"}, 0) /\ Audited("Kit", "added") /\ "added" \in Whats("Kit")
               /\ membership' = [added |-> Instant, removed |-> 0]
               /\ UNCHANGED <<booked, inspected, raised, statusLog>>
    BY <2>2 DEF AddKitAsset, Whats
  <2>3. ASSUME RemoveKitAsset
        PROVE  /\ Happens({"removed"}, 0) /\ Audited("Kit", "removed")
               /\ "removed" \in Whats("Kit")
               /\ membership' = [membership EXCEPT !.removed = Instant]
               /\ UNCHANGED <<booked, inspected, raised, statusLog>>
    BY <2>3 DEF RemoveKitAsset, Whats
  <2> QED
    BY <2>1, <2>2, <2>3
<1>s. what \in Events
  BY DEF Events
<1> DEFINE new == [on |-> on, what |-> what, of |-> 0, at |-> Instant]
<1>2. /\ instant' = Instant /\ Instant \in Nat /\ 1 .. instant \subseteq 1 .. Instant
      /\ Instant \in 1 .. Instant /\ 0 .. instant \subseteq 0 .. Instant
      /\ Instant \in 0 .. Instant /\ Instant # 0
      /\ past \subseteq past' /\ past' \subseteq [what : Events, of : Subjects, at : 1 .. Instant]
      /\ Happened(what, 0, instant)'
      /\ \A p \in past' : p \in past \/ (p.what = what /\ p.of = 0 /\ p.at = Instant)
      /\ \A p \in past : p.at < Instant
      /\ \A p, q \in past' : p.at = q.at /\ {p.what, q.what} \cap Marks = {} => p = q
  <2>1. {what} \in SUBSET Events
    BY <1>s
  <2>2. 0 \in Subjects
    BY DEF Subjects
  <2>3. \A v, w \in {what} \ Marks : v = w
    OBVIOUS
  <2>4. Happens({what}, 0)
    BY <1>1
  <2> QED
    BY <2>1, <2>2, <2>3, <2>4, OneThingHappens
<1>3. audit' = audit \cup {new}
  BY <1>1 DEF Audited
<1>4. /\ audit' \subseteq [on : {"Kit", "Asset", "EditorProfile"}, what : Events,
                           of : Subjects, at : 1 .. Instant]
      /\ statusLog' \subseteq [of : TrailBookings, at : 1 .. Instant]
      /\ IsFiniteSet(audit') /\ IsFiniteSet(statusLog')
      /\ \A a, o \in audit' : a.at = o.at => a = o
      /\ \A l, o \in statusLog' : l.at = o.at => l = o
  <2>1. {new} \subseteq [on : {"Kit", "Asset", "EditorProfile"}, what : Events,
                         of : Subjects, at : {Instant}]
    BY <1>s DEF Subjects
  <2>2. IsFiniteSet({new}) /\ IsFiniteSet({})
    BY FS_Singleton, FS_EmptySet
  <2>3. statusLog' = statusLog \cup {}
    BY <1>1
  <2> HIDE DEF new
  <2> QED
    BY <1>2, <1>3, <2>1, <2>2, <2>3, LogsGrow
<1> HIDE DEF Instant
<1>5. HistoriesTypeOK'
  <2>1. membership' \in [added : 0 .. Instant, removed : 0 .. Instant]
    <3>1. membership \in [added : 0 .. instant, removed : 0 .. instant]
      BY DEF HistoriesInv, HistoriesTypeOK
    <3>2. 0 \in 0 .. Instant
      BY <1>2
    <3> QED
      BY <1>1, <1>2, <3>1, <3>2
  <2> QED
    BY <1>1, <1>2, <1>4, <2>1 DEF HistoriesInv, HistoriesTypeOK, Subjects
<1>6. RowsAreTrue'
  <2>1. ASSUME NEW a \in audit' PROVE [what |-> a.what, of |-> a.of, at |-> a.at] \in past'
    <3>1. CASE a \in audit
      BY <1>2, <3>1 DEF HistoriesInv, RowsAreTrue, Happened
    <3>2. CASE a = new
      <4>1. a.what = what /\ a.of = 0 /\ a.at = instant'
        BY <1>2, <3>2
      <4> QED
        BY <1>2, <4>1 DEF Happened
    <3> QED
      BY <1>3, <3>1, <3>2
  <2>2. /\ membership'.added # 0 => Happened("added", 0, membership.added)'
        /\ membership'.removed # 0 => Happened("removed", 0, membership.removed)'
    <3>1. membership \in [added : 0 .. instant, removed : 0 .. instant]
      BY DEF HistoriesInv, HistoriesTypeOK
    <3>2. /\ membership.added # 0 => Happened("added", 0, membership.added)
          /\ membership.removed # 0 => Happened("removed", 0, membership.removed)
      BY DEF HistoriesInv, RowsAreTrue
    <3>3. CASE UNCHANGED membership
      BY <1>2, <3>2, <3>3 DEF Happened
    <3>4. CASE what = "added" /\ membership' = [added |-> Instant, removed |-> 0]
      BY <1>2, <3>4 DEF Happened
    <3>5. CASE what = "removed" /\ membership' = [membership EXCEPT !.removed = Instant]
      <4>1. membership'.added = membership.added /\ membership'.removed = instant'
        BY <1>2, <3>1, <3>5
      <4> QED
        BY <1>2, <3>2, <3>5, <4>1 DEF Happened
    <3> QED
      BY <1>1, <3>3, <3>4, <3>5
  <2>3. \A l \in statusLog' : Happened("status", l.of, l.at)'
    BY <1>1, <1>2 DEF HistoriesInv, RowsAreTrue, Happened
  <2>4. /\ raised'.reported # 0 => Happened("reported", 0, raised.reported)'
        /\ raised'.resolved # 0 => Happened("resolved", 0, raised.resolved)'
    BY <1>1, <1>2 DEF HistoriesInv, RowsAreTrue, Happened
  <2>5. BookingsAreTrue'
    BY <1>1, <1>2 DEF HistoriesInv, RowsAreTrue, BookingsAreTrue, Happened
  <2> QED
    BY <2>1, <2>2, <2>3, <2>4, <2>5 DEF RowsAreTrue, Happened
<1>7. PastIsInRows'
  <2> SUFFICES ASSUME NEW p \in past'
               PROVE  IsLogged(p)' /\ IsOnRecord(p)'
    BY DEF PastIsInRows
  <2>1. CASE p \in past
    BY <1>1, <1>3, <2>1 DEF HistoriesInv, PastIsInRows, IsLogged, IsOnRecord, AuditOf
  <2>2. CASE p.what = what /\ p.of = 0 /\ p.at = Instant
    BY <1>1, <1>3, <2>2 DEF IsLogged, IsOnRecord, AuditOf, Whats
  <2> QED
    BY <1>2, <2>1, <2>2
<1>8. RowsComeOneByOne'
  <2>1. \A a \in audit' : a.what \in IF a.on = "Kit" THEN {"Kit", "added", "removed", "kit status"}
                                     ELSE {a.on}
    <3>1. \A a \in audit : a.what \in Whats(a.on)
      BY DEF HistoriesInv, RowsComeOneByOne, Whats
    <3>2. new.what \in Whats(new.on)
      BY <1>1
    <3>3. \A a \in audit' : a.what \in Whats(a.on)
      BY <1>3, <3>1, <3>2
    <3> QED
      BY <3>3 DEF Whats
  <2>2. ASSUME NEW a \in audit', a.what = "added", membership'.added # 0
        PROVE  \E o \in audit' : o.what = "added" /\ o.at = membership'.added
    <3>1. membership \in [added : 0 .. instant, removed : 0 .. instant]
      BY DEF HistoriesInv, HistoriesTypeOK
    <3>2. CASE what = "added"
      <4>1. new \in audit' /\ new.what = "added" /\ new.at = membership'.added
        BY <1>1, <1>3, <3>2
      <4> QED
        BY <4>1
    <3>3. CASE what # "added"
      <4>1. a \in audit /\ membership'.added = membership.added
        BY <1>1, <1>3, <2>2, <3>1, <3>3
      <4> QED
        BY <1>3, <2>2, <4>1 DEF HistoriesInv, RowsComeOneByOne
    <3> QED
      BY <3>2, <3>3
  <2> QED
    BY <1>2, <1>4, <2>1, <2>2 DEF RowsComeOneByOne, Marks
<1>9. StepByStep'
  BY <1>1 DEF HistoriesInv, StepByStep
<1> QED
  BY <1>5, <1>6, <1>7, <1>8, <1>9 DEF HistoriesInv

Milestones == {"booked", "collected", "returned", "cancelled", "started", "reported", "resolved"}
BookingRows == [TrailBookings -> [created : Nat, collection : Nat, returned : Nat, cancelled : Nat]]
InspectionRows == [TrailBookings -> [Documents -> [started : Nat, completed : Nat]]]

\* An operation that only the rows of bookings, documents and the issue tell of.
LEMMA UnloggedStep ==
    ASSUME HistoriesInv, NEW whats \in SUBSET Milestones, \A v, w \in whats : v = w,
           NEW of \in Subjects, Happens(whats, of), UNCHANGED <<audit, membership, statusLog>>,
           booked' \in BookingRows, inspected' \in InspectionRows,
           raised' \in [reported : Nat, resolved : Nat],
           raised'.reported # 0 => Happened("reported", 0, raised.reported)',
           raised'.resolved # 0 => Happened("resolved", 0, raised.resolved)',
           BookingsAreTrue', StepByStep', \A p \in past' : IsOnRecord(p)'
    PROVE  HistoriesInv'
<1>1. /\ instant' = Instant /\ Instant \in Nat /\ 1 .. instant \subseteq 1 .. Instant
      /\ Instant \in 1 .. Instant /\ 0 .. instant \subseteq 0 .. Instant
      /\ past \subseteq past' /\ past' \subseteq [what : Events, of : Subjects, at : 1 .. Instant]
      /\ \A p \in past' : p \in past \/ (p.what \in whats /\ p.of = of /\ p.at = Instant)
      /\ \A p, q \in past' : p.at = q.at /\ {p.what, q.what} \cap Marks = {} => p = q
  <2>1. whats \in SUBSET Events /\ \A v, w \in whats \ Marks : v = w
    BY DEF Milestones, Events
  <2> QED
    BY <2>1, OneThingHappens
<1>2. /\ audit' \subseteq [on : {"Kit", "Asset", "EditorProfile"}, what : Events,
                           of : Subjects, at : 1 .. Instant]
      /\ statusLog' \subseteq [of : TrailBookings, at : 1 .. Instant]
      /\ IsFiniteSet(audit') /\ IsFiniteSet(statusLog')
      /\ \A a, o \in audit' : a.at = o.at => a = o
      /\ \A l, o \in statusLog' : l.at = o.at => l = o
  <2>1. audit' = audit \cup {} /\ statusLog' = statusLog \cup {} /\ IsFiniteSet({})
    BY FS_EmptySet
  <2> QED
    BY <1>1, <2>1, LogsGrow
<1> HIDE DEF Instant
<1>3. HistoriesTypeOK'
  <2>1. membership' \in [added : 0 .. Instant, removed : 0 .. Instant]
    <3>1. membership \in [added : 0 .. instant, removed : 0 .. instant]
      BY DEF HistoriesInv, HistoriesTypeOK
    <3> QED
      BY <1>1, <3>1
  <2> QED
    BY <1>1, <1>2, <2>1 DEF HistoriesTypeOK, Subjects, BookingRows, InspectionRows
<1>4. RowsAreTrue'
  BY <1>1 DEF HistoriesInv, RowsAreTrue, Happened
<1>5. PastIsInRows'
  <2> SUFFICES ASSUME NEW p \in past' PROVE IsLogged(p)'
    BY DEF PastIsInRows
  <2>1. CASE p \in past
    BY <2>1 DEF HistoriesInv, PastIsInRows, IsLogged, AuditOf
  <2>2. CASE p.what \in whats
    BY <2>2 DEF IsLogged, Milestones
  <2> QED
    BY <1>1, <2>1, <2>2
<1>6. RowsComeOneByOne'
  <2>1. /\ \A a \in audit' : a.what \in IF a.on = "Kit"
                                        THEN {"Kit", "added", "removed", "kit status"}
                                        ELSE {a.on}
        /\ \A a \in audit' : a.what = "added" /\ membership'.added # 0 =>
             \E o \in audit' : o.what = "added" /\ o.at = membership'.added
    BY DEF HistoriesInv, RowsComeOneByOne
  <2> QED
    BY <1>1, <1>2, <2>1 DEF RowsComeOneByOne, Marks
<1> QED
  BY <1>3, <1>4, <1>5, <1>6 DEF HistoriesInv

LEMMA IssueStep ==
    ASSUME HistoriesInv, ReportIssue \/ SettleIssue
    PROVE  HistoriesInv'
<1>0. /\ booked \in BookingRows /\ inspected \in InspectionRows
      /\ raised \in [reported : Nat, resolved : Nat]
  BY DEF HistoriesInv, HistoriesTypeOK, BookingRows, InspectionRows
<1>1. PICK whats \in {{}, {"reported"}, {"resolved"}} :
        /\ Happens(whats, 0)
        /\ UNCHANGED <<audit, membership, booked, inspected, statusLog>>
        /\ \/ /\ whats = {"reported"} /\ raised.reported = 0
              /\ raised' = [raised EXCEPT !.reported = Instant]
           \/ whats = {"resolved"} /\ raised' = [raised EXCEPT !.resolved = Instant]
           \/ whats = {} /\ raised' = [raised EXCEPT !.resolved = 0]
  BY DEF ReportIssue, SettleIssue
<1>2. /\ whats \in SUBSET Milestones /\ \A v, w \in whats : v = w
      /\ 0 \in Subjects
  BY DEF Milestones, Subjects
<1>3. /\ instant' = Instant /\ Instant \in Nat /\ Instant # 0
      /\ past \subseteq past'
      /\ \A w \in whats : Happened(w, 0, instant)'
      /\ \A p \in past' : p \in past \/ (p.what \in whats /\ p.of = 0 /\ p.at = Instant)
      /\ \A p \in past : p.at < Instant
  <2>1. whats \in SUBSET Events /\ \A v, w \in whats \ Marks : v = w
    BY <1>2 DEF Milestones, Events
  <2> QED
    BY <1>1, <1>2, <2>1, OneThingHappens
<1> HIDE DEF Instant
<1>4. raised' \in [reported : Nat, resolved : Nat]
  BY <1>0, <1>1, <1>3
<1>5. /\ raised.reported # 0 => Happened("reported", 0, raised.reported)
      /\ raised.resolved # 0 => Happened("resolved", 0, raised.resolved)
  BY DEF HistoriesInv, RowsAreTrue
<1>6. /\ raised'.reported # 0 => Happened("reported", 0, raised.reported)'
      /\ raised'.resolved # 0 => Happened("resolved", 0, raised.resolved)'
  <2>1. CASE /\ whats = {"reported"} /\ raised' = [raised EXCEPT !.reported = Instant]
    <3>1. raised'.reported = instant' /\ raised'.resolved = raised.resolved
      BY <1>0, <1>3, <2>1
    <3> QED
      BY <1>3, <1>5, <2>1, <3>1 DEF Happened
  <2>2. CASE whats = {"resolved"} /\ raised' = [raised EXCEPT !.resolved = Instant]
    <3>1. raised'.resolved = instant' /\ raised'.reported = raised.reported
      BY <1>0, <1>3, <2>2
    <3> QED
      BY <1>3, <1>5, <2>2, <3>1 DEF Happened
  <2>3. CASE raised' = [raised EXCEPT !.resolved = 0]
    <3>1. raised'.resolved = 0 /\ raised'.reported = raised.reported
      BY <1>0, <2>3
    <3> QED
      BY <1>3, <1>5, <3>1 DEF Happened
  <2> QED
    BY <1>1, <2>1, <2>2, <2>3
<1>7. BookingsAreTrue' /\ StepByStep'
  BY <1>1, <1>3 DEF HistoriesInv, RowsAreTrue, BookingsAreTrue, StepByStep, Happened
<1>8. ASSUME NEW p \in past' PROVE IsOnRecord(p)'
  <2>1. CASE p \in past
    <3>1. IsOnRecord(p) /\ p.at # 0
      BY <2>1, RowsAreTyped DEF HistoriesInv, PastIsInRows
    <3>2. p.what = "reported" => raised'.reported = p.at
      BY <1>0, <1>1, <3>1 DEF IsOnRecord
    <3> QED
      BY <1>1, <3>1, <3>2 DEF IsOnRecord
  <2>2. CASE p.what \in whats /\ p.of = 0 /\ p.at = Instant
    <3>1. p.what = "reported" => raised'.reported = p.at
      BY <1>0, <1>1, <2>2
    <3> QED
      BY <1>1, <2>2, <3>1 DEF IsOnRecord
  <2> QED
    BY <1>3, <2>1, <2>2
<1> QED
  BY <1>0, <1>1, <1>2, <1>4, <1>6, <1>7, <1>8, UnloggedStep

LEMMA BookingRowsAreTyped ==
    ASSUME HistoriesInv
    PROVE  /\ booked \in BookingRows /\ inspected \in InspectionRows
           /\ raised \in [reported : Nat, resolved : Nat]
           /\ "HANDOVER" \in Documents /\ "RETURN" \in Documents
           /\ \A b \in TrailBookings : b \in Subjects
           /\ \A p \in past : IsOnRecord(p) /\ p.at # 0
BY RowsAreTyped DEF HistoriesInv, HistoriesTypeOK, BookingRows, InspectionRows, Documents, Subjects,
   PastIsInRows

LEMMA CreateStep ==
    ASSUME HistoriesInv, NEW b \in TrailBookings, CreateBooking(b)
    PROVE  HistoriesInv'
<1>1. PICK planned \in {0, Instant + 1} :
        /\ booked[b].created = 0 /\ Happens({"booked"}, b)
        /\ booked' = [booked EXCEPT ![b].created = Instant, ![b].collection = planned]
        /\ UNCHANGED <<audit, membership, inspected, raised, statusLog>>
  BY DEF CreateBooking
<1>2. /\ instant' = Instant /\ Instant \in Nat /\ Instant # 0
      /\ past \subseteq past'
      /\ Happened("booked", b, instant)'
      /\ \A p \in past' : p \in past \/ (p.what = "booked" /\ p.of = b /\ p.at = Instant)
  <2>1. /\ {"booked"} \in SUBSET Events /\ \A v, w \in {"booked"} \ Marks : v = w
        /\ b \in Subjects
    BY DEF Events, Subjects
  <2> QED
    BY <1>1, <2>1, OneThingHappens
<1>3. planned \in Nat
  BY <1>2
<1> HIDE DEF Instant
<1>4. /\ booked \in BookingRows /\ inspected \in InspectionRows
      /\ raised \in [reported : Nat, resolved : Nat] /\ Documents = {"HANDOVER", "RETURN"}
      /\ \A p \in past : IsOnRecord(p) /\ p.at # 0
  BY BookingRowsAreTyped DEF Documents
<1>5. /\ booked' \in BookingRows
      /\ \A o \in TrailBookings \ {b} : booked'[o] = booked[o]
      /\ booked'[b].created = instant' /\ booked'[b].returned = booked[b].returned
      /\ booked'[b].cancelled = booked[b].cancelled
  BY <1>1, <1>2, <1>3, <1>4 DEF BookingRows
<1>6. \A d \in Documents : inspected[b][d].started = 0 /\ inspected[b][d].completed = 0
  BY <1>1 DEF HistoriesInv, StepByStep
<1>7. BookingsAreTrue'
  <2> SUFFICES ASSUME NEW o \in TrailBookings
               PROVE
      /\ booked'[o].created # 0 => Happened("booked", o, booked[o].created)'
      /\ booked'[o].returned # 0 => Happened("returned", o, booked[o].returned)'
      /\ booked'[o].cancelled # 0 => Happened("cancelled", o, booked[o].cancelled)'
      /\ \A d \in Documents :
           inspected'[o][d].started # 0 => Happened("started", o, inspected[o][d].started)'
      /\ inspected'[o]["HANDOVER"].completed # 0 =>
           /\ Happened("collected", o, booked[o].collection)'
           /\ Happened("collected", o, inspected[o]["HANDOVER"].completed)'
      /\ inspected'[o]["RETURN"].completed # 0 =>
           Happened("returned", o, inspected[o]["RETURN"].completed)'
    BY DEF BookingsAreTrue
  <2>1. /\ booked[o].created # 0 => Happened("booked", o, booked[o].created)
        /\ booked[o].returned # 0 => Happened("returned", o, booked[o].returned)
        /\ booked[o].cancelled # 0 => Happened("cancelled", o, booked[o].cancelled)
        /\ \A d \in Documents :
             inspected[o][d].started # 0 => Happened("started", o, inspected[o][d].started)
        /\ inspected[o]["HANDOVER"].completed # 0 =>
             /\ Happened("collected", o, booked[o].collection)
             /\ Happened("collected", o, inspected[o]["HANDOVER"].completed)
        /\ inspected[o]["RETURN"].completed # 0 =>
             Happened("returned", o, inspected[o]["RETURN"].completed)
    BY DEF HistoriesInv, RowsAreTrue, BookingsAreTrue
  <2>2. CASE o = b
    BY <1>1, <1>2, <1>4, <1>5, <1>6, <2>1, <2>2 DEF Happened
  <2>3. CASE o # b
    BY <1>1, <1>2, <1>5, <2>1, <2>3 DEF Happened
  <2> QED
    BY <2>2, <2>3
<1>8. StepByStep'
  BY <1>1, <1>5, <1>6 DEF HistoriesInv, StepByStep
<1>9. ASSUME NEW p \in past' PROVE IsOnRecord(p)'
  <2>1. CASE p \in past
    <3>1. IsOnRecord(p) /\ p.at # 0
      BY <1>4, <2>1
    <3>3. p.what = "booked" => p.of # b
      BY <1>1, <3>1 DEF IsOnRecord
    <3>4. p.what = "collected" => p.of # b
      BY <1>4, <1>6, <3>1 DEF IsOnRecord
    <3> QED
      BY <1>1, <1>5, <3>1, <3>3, <3>4 DEF IsOnRecord
  <2>2. CASE p.what = "booked" /\ p.of = b /\ p.at = Instant
    BY <1>2, <1>5, <2>2 DEF IsOnRecord
  <2> QED
    BY <1>2, <2>1, <2>2
<1>10. /\ raised'.reported # 0 => Happened("reported", 0, raised.reported)'
       /\ raised'.resolved # 0 => Happened("resolved", 0, raised.resolved)'
  BY <1>1, <1>2 DEF HistoriesInv, RowsAreTrue, Happened
<1>11. /\ {"booked"} \in SUBSET Milestones /\ \A v, w \in {"booked"} : v = w
       /\ b \in Subjects
  BY DEF Milestones, Subjects
<1> QED
  BY <1>1, <1>4, <1>5, <1>7, <1>8, <1>9, <1>10, <1>11, UnloggedStep

LEMMA CancelStep ==
    ASSUME HistoriesInv, NEW b \in TrailBookings, CancelBooking(b)
    PROVE  HistoriesInv'
<1>1. /\ booked[b].cancelled = 0 /\ Happens({"cancelled"}, b)
      /\ booked' = [booked EXCEPT ![b].cancelled = Instant]
      /\ UNCHANGED <<audit, membership, inspected, raised, statusLog>>
  BY DEF CancelBooking
<1>2. /\ instant' = Instant /\ Instant \in Nat /\ Instant # 0
      /\ past \subseteq past'
      /\ Happened("cancelled", b, instant)'
      /\ \A p \in past' : p \in past \/ (p.what = "cancelled" /\ p.of = b /\ p.at = Instant)
  <2>1. /\ {"cancelled"} \in SUBSET Events /\ \A v, w \in {"cancelled"} \ Marks : v = w
        /\ b \in Subjects
    BY DEF Events, Subjects
  <2> QED
    BY <1>1, <2>1, OneThingHappens
<1> HIDE DEF Instant
<1>4. /\ booked \in BookingRows /\ inspected \in InspectionRows
      /\ raised \in [reported : Nat, resolved : Nat]
      /\ \A p \in past : IsOnRecord(p) /\ p.at # 0
  BY BookingRowsAreTyped
<1>5. /\ booked' \in BookingRows
      /\ \A o \in TrailBookings : /\ booked'[o].created = booked[o].created
                                  /\ booked'[o].collection = booked[o].collection
                                  /\ booked'[o].returned = booked[o].returned
                                  /\ o # b => booked'[o].cancelled = booked[o].cancelled
      /\ booked'[b].cancelled = instant'
  BY <1>1, <1>2, <1>4 DEF BookingRows
<1>7. BookingsAreTrue'
  BY <1>1, <1>2, <1>5 DEF HistoriesInv, RowsAreTrue, BookingsAreTrue, Happened
<1>8. StepByStep'
  BY <1>1, <1>5 DEF HistoriesInv, StepByStep
<1>9. ASSUME NEW p \in past' PROVE IsOnRecord(p)'
  <2>1. CASE p \in past
    <3>1. IsOnRecord(p) /\ p.at # 0
      BY <1>4, <2>1
    <3>2. p.what = "cancelled" => p.of # b
      BY <1>1, <3>1 DEF IsOnRecord
    <3> QED
      BY <1>1, <1>5, <3>1, <3>2 DEF IsOnRecord
  <2>2. CASE p.what = "cancelled" /\ p.of = b /\ p.at = Instant
    BY <1>2, <1>5, <2>2 DEF IsOnRecord
  <2> QED
    BY <1>2, <2>1, <2>2
<1>10. /\ raised'.reported # 0 => Happened("reported", 0, raised.reported)'
       /\ raised'.resolved # 0 => Happened("resolved", 0, raised.resolved)'
  BY <1>1, <1>2 DEF HistoriesInv, RowsAreTrue, Happened
<1>11. /\ {"cancelled"} \in SUBSET Milestones /\ \A v, w \in {"cancelled"} : v = w
       /\ b \in Subjects
  BY DEF Milestones, Subjects
<1> QED
  BY <1>1, <1>4, <1>5, <1>7, <1>8, <1>9, <1>10, <1>11, UnloggedStep

LEMMA StartStep ==
    ASSUME HistoriesInv, NEW b \in TrailBookings, NEW d \in Documents, StartDocument(b, d)
    PROVE  HistoriesInv'
<1>1. /\ inspected[b][d].started = 0 /\ booked[b].created # 0 /\ Happens({"started"}, b)
      /\ inspected' = [inspected EXCEPT ![b][d].started = Instant]
      /\ UNCHANGED <<audit, membership, booked, raised, statusLog>>
  BY DEF StartDocument
<1>2. /\ instant' = Instant /\ Instant \in Nat /\ Instant # 0
      /\ past \subseteq past'
      /\ Happened("started", b, instant)'
      /\ \A p \in past' : p \in past \/ (p.what = "started" /\ p.of = b /\ p.at = Instant)
  <2>1. /\ {"started"} \in SUBSET Events /\ \A v, w \in {"started"} \ Marks : v = w
        /\ b \in Subjects
    BY DEF Events, Subjects
  <2> QED
    BY <1>1, <2>1, OneThingHappens
<1> HIDE DEF Instant
<1>4. /\ booked \in BookingRows /\ inspected \in InspectionRows
      /\ raised \in [reported : Nat, resolved : Nat]
      /\ "HANDOVER" \in Documents /\ "RETURN" \in Documents
      /\ \A p \in past : IsOnRecord(p) /\ p.at # 0
  BY BookingRowsAreTyped
<1>5. /\ inspected' \in InspectionRows
      /\ \A o \in TrailBookings, e \in Documents :
           /\ inspected'[o][e].completed = inspected[o][e].completed
           /\ o # b \/ e # d => inspected'[o][e].started = inspected[o][e].started
      /\ inspected'[b][d].started = instant'
  BY <1>1, <1>2, <1>4 DEF InspectionRows
<1>7. BookingsAreTrue'
  <2> SUFFICES ASSUME NEW o \in TrailBookings
               PROVE
      /\ booked'[o].created # 0 => Happened("booked", o, booked[o].created)'
      /\ booked'[o].returned # 0 => Happened("returned", o, booked[o].returned)'
      /\ booked'[o].cancelled # 0 => Happened("cancelled", o, booked[o].cancelled)'
      /\ \A e \in Documents :
           inspected'[o][e].started # 0 => Happened("started", o, inspected[o][e].started)'
      /\ inspected'[o]["HANDOVER"].completed # 0 =>
           /\ Happened("collected", o, booked[o].collection)'
           /\ Happened("collected", o, inspected[o]["HANDOVER"].completed)'
      /\ inspected'[o]["RETURN"].completed # 0 =>
           Happened("returned", o, inspected[o]["RETURN"].completed)'
    BY DEF BookingsAreTrue
  <2>1. /\ booked[o].created # 0 => Happened("booked", o, booked[o].created)
        /\ booked[o].returned # 0 => Happened("returned", o, booked[o].returned)
        /\ booked[o].cancelled # 0 => Happened("cancelled", o, booked[o].cancelled)
        /\ \A e \in Documents :
             inspected[o][e].started # 0 => Happened("started", o, inspected[o][e].started)
        /\ inspected[o]["HANDOVER"].completed # 0 =>
             /\ Happened("collected", o, booked[o].collection)
             /\ Happened("collected", o, inspected[o]["HANDOVER"].completed)
        /\ inspected[o]["RETURN"].completed # 0 =>
             Happened("returned", o, inspected[o]["RETURN"].completed)
    BY DEF HistoriesInv, RowsAreTrue, BookingsAreTrue
  <2>2. ASSUME NEW e \in Documents, inspected'[o][e].started # 0
        PROVE  Happened("started", o, inspected[o][e].started)'
    <3>1. CASE o = b /\ e = d
      BY <1>2, <1>5, <3>1 DEF Happened
    <3>2. CASE o # b \/ e # d
      BY <1>2, <1>5, <2>1, <2>2, <3>2 DEF Happened
    <3> QED
      BY <3>1, <3>2
  <2> QED
    BY <1>1, <1>2, <1>4, <1>5, <2>1, <2>2 DEF Happened
<1>8. StepByStep'
  BY <1>1, <1>2, <1>5 DEF HistoriesInv, StepByStep
<1>9. ASSUME NEW p \in past' PROVE IsOnRecord(p)'
  <2>1. CASE p \in past
    BY <1>1, <1>4, <1>5, <2>1 DEF IsOnRecord
  <2>2. CASE p.what = "started"
    BY <2>2 DEF IsOnRecord
  <2> QED
    BY <1>2, <2>1, <2>2
<1>10. /\ raised'.reported # 0 => Happened("reported", 0, raised.reported)'
       /\ raised'.resolved # 0 => Happened("resolved", 0, raised.resolved)'
  BY <1>1, <1>2 DEF HistoriesInv, RowsAreTrue, Happened
<1>11. /\ {"started"} \in SUBSET Milestones /\ \A v, w \in {"started"} : v = w
       /\ b \in Subjects
  BY DEF Milestones, Subjects
<1> QED
  BY <1>1, <1>4, <1>5, <1>7, <1>8, <1>9, <1>10, <1>11, UnloggedStep

\* The document, the booking, the kit's status and the member's, at one time.
LEMMA CompleteStep ==
    ASSUME HistoriesInv, NEW b \in TrailBookings, NEW d \in Documents, CompleteDocument(b, d)
    PROVE  HistoriesInv'
<1> DEFINE what == WhatOf(d)
           whats == {what, "kit status", "status"}
           new == [on |-> "Kit", what |-> "kit status", of |-> b, at |-> Instant]
           news == [of |-> b, at |-> Instant]
<1>1. /\ inspected[b][d].started # 0 /\ inspected[b][d].completed = 0
      /\ Happens(whats, b)
      /\ inspected' = [inspected EXCEPT ![b][d].completed = Instant]
      /\ booked' = IF d = "HANDOVER" THEN [booked EXCEPT ![b].collection = Instant]
                   ELSE [booked EXCEPT ![b].returned = Instant]
      /\ audit' = audit \cup {new} /\ statusLog' = statusLog \cup {news}
      /\ UNCHANGED <<membership, raised>>
  BY DEF CompleteDocument, WhatOf
<1>w. \/ d = "HANDOVER" /\ what = "collected"
      \/ d = "RETURN" /\ what = "returned"
  BY DEF Documents, WhatOf
<1> HIDE DEF what
<1>2. /\ instant' = Instant /\ Instant \in Nat /\ 1 .. instant \subseteq 1 .. Instant
      /\ Instant \in 1 .. Instant /\ 0 .. instant \subseteq 0 .. Instant /\ Instant # 0
      /\ past \subseteq past' /\ past' \subseteq [what : Events, of : Subjects, at : 1 .. Instant]
      /\ Happened(what, b, instant)' /\ Happened("kit status", b, instant)'
      /\ Happened("status", b, instant)'
      /\ \A p \in past' : p \in past \/ (p.what \in whats /\ p.of = b /\ p.at = Instant)
      /\ \A p, q \in past' : p.at = q.at /\ {p.what, q.what} \cap Marks = {} => p = q
  <2>1. whats \in SUBSET Events /\ b \in Subjects
    BY <1>w DEF Events, Subjects
  <2>2. \A v, w \in whats \ Marks : v = w
    BY DEF Marks
  <2> HIDE DEF whats
  <2>3. /\ instant' = Instant /\ Instant \in Nat /\ 1 .. instant \subseteq 1 .. Instant
        /\ Instant \in 1 .. Instant /\ 0 .. instant \subseteq 0 .. Instant /\ Instant # 0
        /\ past \subseteq past'
        /\ past' \subseteq [what : Events, of : Subjects, at : 1 .. Instant]
        /\ \A w \in whats : Happened(w, b, instant)'
        /\ \A p \in past' : p \in past \/ (p.what \in whats /\ p.of = b /\ p.at = Instant)
        /\ \A p, q \in past' : p.at = q.at /\ {p.what, q.what} \cap Marks = {} => p = q
    BY <1>1, <2>1, <2>2, OneThingHappens
  <2>4. what \in whats /\ "kit status" \in whats /\ "status" \in whats
    BY DEF whats
  <2> QED
    BY <2>3, <2>4
<1>3. /\ audit' \subseteq [on : {"Kit", "Asset", "EditorProfile"}, what : Events,
                           of : Subjects, at : 1 .. Instant]
      /\ statusLog' \subseteq [of : TrailBookings, at : 1 .. Instant]
      /\ IsFiniteSet(audit') /\ IsFiniteSet(statusLog')
      /\ \A a, o \in audit' : a.at = o.at => a = o
      /\ \A l, o \in statusLog' : l.at = o.at => l = o
  <2>1. {new} \subseteq [on : {"Kit", "Asset", "EditorProfile"}, what : Events,
                         of : Subjects, at : {Instant}]
    BY DEF Subjects, Events
  <2>2. {news} \subseteq [of : TrailBookings, at : {Instant}]
    OBVIOUS
  <2>3. IsFiniteSet({new}) /\ IsFiniteSet({news})
    BY FS_Singleton
  <2> HIDE DEF new, news
  <2> QED
    BY <1>1, <1>2, <2>1, <2>2, <2>3, LogsGrow
<1> HIDE DEF Instant
<1>4. /\ booked \in BookingRows /\ inspected \in InspectionRows
      /\ raised \in [reported : Nat, resolved : Nat]
      /\ "HANDOVER" \in Documents /\ "RETURN" \in Documents
      /\ \A p \in past : IsOnRecord(p) /\ p.at # 0
  BY BookingRowsAreTyped
<1>5. /\ booked' \in BookingRows
      /\ \A o \in TrailBookings : /\ booked'[o].created = booked[o].created
                                  /\ booked'[o].cancelled = booked[o].cancelled
      /\ \A o \in TrailBookings : o # b => booked'[o] = booked[o]
      /\ d = "HANDOVER" => /\ booked'[b].collection = instant'
                           /\ booked'[b].returned = booked[b].returned
      /\ d = "RETURN" => /\ booked'[b].returned = instant'
                         /\ booked'[b].collection = booked[b].collection
  <2>1. CASE d = "HANDOVER"
    <3>1. booked' = [booked EXCEPT ![b].collection = Instant]
      BY <1>1, <2>1
    <3> QED
      BY <1>2, <1>4, <2>1, <3>1 DEF BookingRows
  <2>2. CASE d = "RETURN"
    <3>1. booked' = [booked EXCEPT ![b].returned = Instant]
      BY <1>1, <2>2
    <3> QED
      BY <1>2, <1>4, <2>2, <3>1 DEF BookingRows
  <2> QED
    BY <1>w, <2>1, <2>2
<1>6. /\ inspected' \in InspectionRows
      /\ \A o \in TrailBookings, e \in Documents :
           /\ inspected'[o][e].started = inspected[o][e].started
           /\ o # b \/ e # d => inspected'[o][e].completed = inspected[o][e].completed
      /\ inspected'[b][d].completed = instant'
  <2>1. inspected' = [inspected EXCEPT ![b][d].completed = Instant]
    BY <1>1
  <2>2. Instant \in Nat /\ instant' = Instant
    BY <1>2
  <2>3. inspected \in InspectionRows
    BY <1>4
  <2> QED
    BY <2>1, <2>2, <2>3 DEF InspectionRows
<1>7. HistoriesTypeOK'
  <2>1. membership' \in [added : 0 .. Instant, removed : 0 .. Instant]
    <3>1. membership \in [added : 0 .. instant, removed : 0 .. instant]
      BY DEF HistoriesInv, HistoriesTypeOK
    <3> QED
      BY <1>1, <1>2, <3>1
  <2> QED
    BY <1>1, <1>2, <1>3, <1>4, <1>5, <1>6, <2>1
    DEF HistoriesTypeOK, Subjects, BookingRows, InspectionRows
<1>8. BookingsAreTrue'
  <2> SUFFICES ASSUME NEW o \in TrailBookings
               PROVE
      /\ booked'[o].created # 0 => Happened("booked", o, booked[o].created)'
      /\ booked'[o].returned # 0 => Happened("returned", o, booked[o].returned)'
      /\ booked'[o].cancelled # 0 => Happened("cancelled", o, booked[o].cancelled)'
      /\ \A e \in Documents :
           inspected'[o][e].started # 0 => Happened("started", o, inspected[o][e].started)'
      /\ inspected'[o]["HANDOVER"].completed # 0 =>
           /\ Happened("collected", o, booked[o].collection)'
           /\ Happened("collected", o, inspected[o]["HANDOVER"].completed)'
      /\ inspected'[o]["RETURN"].completed # 0 =>
           Happened("returned", o, inspected[o]["RETURN"].completed)'
    BY DEF BookingsAreTrue
  <2>1. /\ booked[o].created # 0 => Happened("booked", o, booked[o].created)
        /\ booked[o].returned # 0 => Happened("returned", o, booked[o].returned)
        /\ booked[o].cancelled # 0 => Happened("cancelled", o, booked[o].cancelled)
        /\ \A e \in Documents :
             inspected[o][e].started # 0 => Happened("started", o, inspected[o][e].started)
        /\ inspected[o]["HANDOVER"].completed # 0 =>
             /\ Happened("collected", o, booked[o].collection)
             /\ Happened("collected", o, inspected[o]["HANDOVER"].completed)
        /\ inspected[o]["RETURN"].completed # 0 =>
             Happened("returned", o, inspected[o]["RETURN"].completed)
    BY DEF HistoriesInv, RowsAreTrue, BookingsAreTrue
  <2>2. /\ booked'[o].created # 0 => Happened("booked", o, booked[o].created)'
        /\ booked'[o].cancelled # 0 => Happened("cancelled", o, booked[o].cancelled)'
        /\ \A e \in Documents :
             inspected'[o][e].started # 0 => Happened("started", o, inspected[o][e].started)'
    BY <1>2, <1>5, <1>6, <2>1 DEF Happened
  <2>3. CASE o # b
    BY <1>2, <1>4, <1>5, <1>6, <2>1, <2>2, <2>3 DEF Happened
  <2>4. CASE o = b /\ d = "HANDOVER" /\ what = "collected"
    <3>1. /\ inspected'[b]["HANDOVER"].completed = instant'
          /\ inspected'[b]["RETURN"].completed = inspected[b]["RETURN"].completed
      BY <1>4, <1>6, <2>4
    <3> QED
      BY <1>2, <1>5, <2>1, <2>2, <2>4, <3>1 DEF Happened
  <2>5. CASE o = b /\ d = "RETURN" /\ what = "returned"
    <3>1. /\ inspected'[b]["RETURN"].completed = instant'
          /\ inspected'[b]["HANDOVER"].completed = inspected[b]["HANDOVER"].completed
      BY <1>4, <1>6, <2>5
    <3> QED
      BY <1>2, <1>5, <2>1, <2>2, <2>5, <3>1 DEF Happened
  <2> QED
    BY <1>w, <2>3, <2>4, <2>5
<1>9. RowsAreTrue'
  <2>1. ASSUME NEW a \in audit' PROVE Happened(a.what, a.of, a.at)'
    <3>1. CASE a \in audit
      BY <1>2, <3>1 DEF HistoriesInv, RowsAreTrue, Happened
    <3>2. CASE a = new
      BY <1>2, <3>2 DEF Happened
    <3> QED
      BY <1>1, <3>1, <3>2
  <2>2. ASSUME NEW l \in statusLog' PROVE Happened("status", l.of, l.at)'
    <3>1. CASE l \in statusLog
      BY <1>2, <3>1 DEF HistoriesInv, RowsAreTrue, Happened
    <3>2. CASE l = news
      BY <1>2, <3>2 DEF Happened
    <3> QED
      BY <1>1, <3>1, <3>2
  <2>3. /\ membership'.added # 0 => Happened("added", 0, membership.added)'
        /\ membership'.removed # 0 => Happened("removed", 0, membership.removed)'
        /\ raised'.reported # 0 => Happened("reported", 0, raised.reported)'
        /\ raised'.resolved # 0 => Happened("resolved", 0, raised.resolved)'
    BY <1>1, <1>2 DEF HistoriesInv, RowsAreTrue, Happened
  <2> QED
    BY <1>8, <2>1, <2>2, <2>3 DEF RowsAreTrue
<1>10. PastIsInRows'
  <2> SUFFICES ASSUME NEW p \in past' PROVE IsLogged(p)' /\ IsOnRecord(p)'
    BY DEF PastIsInRows
  <2>1. CASE p \in past
    <3>1. IsLogged(p)'
      BY <1>1, <2>1 DEF HistoriesInv, PastIsInRows, IsLogged, AuditOf
    <3>2. IsOnRecord(p) /\ p.at # 0
      BY <1>4, <2>1
    <3>3. \/ d = "HANDOVER" /\ (p.what = "collected" => p.of # b)
          \/ d = "RETURN" /\ (p.what = "returned" => p.of # b)
      BY <1>1, <1>w, <3>2 DEF IsOnRecord
    <3>4. p.what = "collected" =>
            /\ p.of \in TrailBookings /\ booked'[p.of].collection = p.at
            /\ inspected'[p.of]["HANDOVER"].completed = p.at
      <4> SUFFICES ASSUME p.what = "collected"
                   PROVE  /\ p.of \in TrailBookings /\ booked'[p.of].collection = p.at
                          /\ inspected'[p.of]["HANDOVER"].completed = p.at
        OBVIOUS
      <4>1. /\ p.of \in TrailBookings /\ booked[p.of].collection = p.at
            /\ inspected[p.of]["HANDOVER"].completed = p.at
        BY <3>2 DEF IsOnRecord
      <4> QED
        BY <1>4, <1>5, <1>6, <3>3, <4>1
    <3>5. p.what = "returned" =>
            /\ p.of \in TrailBookings /\ booked'[p.of].returned = p.at
            /\ inspected'[p.of]["RETURN"].completed = p.at
      <4> SUFFICES ASSUME p.what = "returned"
                   PROVE  /\ p.of \in TrailBookings /\ booked'[p.of].returned = p.at
                          /\ inspected'[p.of]["RETURN"].completed = p.at
        OBVIOUS
      <4>1. /\ p.of \in TrailBookings /\ booked[p.of].returned = p.at
            /\ inspected[p.of]["RETURN"].completed = p.at
        BY <3>2 DEF IsOnRecord
      <4> QED
        BY <1>4, <1>5, <1>6, <3>3, <4>1
    <3>6. IsOnRecord(p)'
      BY <1>1, <1>5, <3>2, <3>4, <3>5 DEF IsOnRecord
    <3> QED
      BY <3>1, <3>6
  <2>2. CASE p.what \in whats /\ p.of = b /\ p.at = Instant
    <3>1. IsLogged(p)'
      <4>1. new \in audit' /\ news \in statusLog'
        BY <1>1
      <4> QED
        BY <1>w, <2>2, <4>1 DEF IsLogged, AuditOf
    <3>0. p.what \in {what, "kit status", "status"} /\ p.of = b /\ p.at = instant'
      BY <1>2, <2>2
    <3>2. CASE d = "HANDOVER" /\ what = "collected"
      BY <1>5, <1>6, <3>0, <3>1, <3>2 DEF IsOnRecord
    <3>3. CASE d = "RETURN" /\ what = "returned"
      BY <1>5, <1>6, <3>0, <3>1, <3>3 DEF IsOnRecord
    <3> QED
      BY <1>w, <3>2, <3>3
  <2> QED
    BY <1>2, <2>1, <2>2
<1>11. RowsComeOneByOne'
  <2>1. \A a \in audit' : a.what \in IF a.on = "Kit" THEN {"Kit", "added", "removed", "kit status"}
                                     ELSE {a.on}
    <3>1. \A a \in audit : a.what \in Whats(a.on)
      BY DEF HistoriesInv, RowsComeOneByOne, Whats
    <3>2. new.what \in Whats(new.on)
      BY DEF Whats
    <3>3. \A a \in audit' : a.what \in Whats(a.on)
      BY <1>1, <3>1, <3>2
    <3> QED
      BY <3>3 DEF Whats
  <2>2. ASSUME NEW a \in audit', a.what = "added", membership'.added # 0
        PROVE  \E o \in audit' : o.what = "added" /\ o.at = membership'.added
    <3>1. new.what # "added" /\ audit' = audit \cup {new} /\ membership' = membership
      BY <1>1
    <3> HIDE DEF new
    <3>2. a \in audit
      BY <2>2, <3>1
    <3>3. PICK o \in audit : o.what = "added" /\ o.at = membership.added
      BY <2>2, <3>1, <3>2 DEF HistoriesInv, RowsComeOneByOne
    <3> QED
      BY <3>1, <3>3
  <2> QED
    BY <1>2, <1>3, <2>1, <2>2 DEF RowsComeOneByOne, Marks
<1>12. StepByStep'
  <2> SUFFICES ASSUME NEW o \in TrailBookings, NEW e \in Documents
               PROVE  /\ inspected'[o][e].completed # 0 => inspected'[o][e].started # 0
                      /\ inspected'[o][e].started # 0 => booked'[o].created # 0
    BY DEF StepByStep
  <2>1. /\ inspected[o][e].completed # 0 => inspected[o][e].started # 0
        /\ inspected[o][e].started # 0 => booked[o].created # 0
    BY DEF HistoriesInv, StepByStep
  <2>2. inspected[b][d].started # 0
    BY <1>1
  <2> QED
    BY <1>5, <1>6, <2>1, <2>2
<1> QED
  BY <1>7, <1>9, <1>10, <1>11, <1>12 DEF HistoriesInv

LEMMA HistoriesStart == HistoriesInit => HistoriesInv
<1> SUFFICES ASSUME HistoriesInit PROVE HistoriesInv
  OBVIOUS
<1>1. /\ instant = 1 /\ audit = {} /\ statusLog = {}
      /\ \/ membership = [added |-> 0, removed |-> 0] /\ past = {}
         \/ /\ membership = [added |-> 1, removed |-> 0]
            /\ past = {[what |-> "added", of |-> 0, at |-> 1]}
      /\ booked = [b \in TrailBookings |-> NoBooking]
      /\ inspected = [b \in TrailBookings |-> [d \in Documents |-> NoInspection]]
      /\ raised = [reported |-> 0, resolved |-> 0]
  BY DEF HistoriesInit
<1>2. /\ \A b \in TrailBookings : /\ booked[b].created = 0 /\ booked[b].returned = 0
                                  /\ booked[b].cancelled = 0
      /\ \A b \in TrailBookings, d \in Documents :
           inspected[b][d].started = 0 /\ inspected[b][d].completed = 0
      /\ "HANDOVER" \in Documents /\ "RETURN" \in Documents
  BY <1>1 DEF NoBooking, NoInspection, Documents
<1>3. HistoriesTypeOK
  <2>1. /\ booked \in BookingRows /\ inspected \in InspectionRows
        /\ raised \in [reported : Nat, resolved : Nat]
    BY <1>1 DEF BookingRows, InspectionRows, NoBooking, NoInspection
  <2>2. IsFiniteSet({})
    BY FS_EmptySet
  <2>3. past \subseteq [what : Events, of : {0} \cup TrailBookings, at : 1 .. instant]
    <3>1. "added" \in Events /\ 1 \in 1 .. 1
      BY DEF Events
    <3> QED
      BY <1>1, <3>1
  <2>4. membership \in [added : 0 .. instant, removed : 0 .. instant]
    BY <1>1
  <2> QED
    BY <1>1, <2>1, <2>2, <2>3, <2>4 DEF HistoriesTypeOK, BookingRows, InspectionRows
<1>4. RowsAreTrue
  <2>1. BookingsAreTrue
    BY <1>2 DEF BookingsAreTrue
  <2> QED
    BY <1>1, <2>1 DEF RowsAreTrue, Happened
<1>5. PastIsInRows
  <2>1. \A p \in past : p.what = "added" /\ p.of = 0
    BY <1>1
  <2> QED
    BY <2>1 DEF PastIsInRows, IsLogged, IsOnRecord
<1>6. RowsComeOneByOne
  BY <1>1 DEF RowsComeOneByOne
<1>7. StepByStep
  BY <1>2 DEF StepByStep
<1> QED
  BY <1>3, <1>4, <1>5, <1>6, <1>7 DEF HistoriesInv

LEMMA HistoriesStep == HistoriesInv /\ [HistoriesNext]_historyVars => HistoriesInv'
<1> SUFFICES ASSUME HistoriesInv, [HistoriesNext]_historyVars
             PROVE  HistoriesInv'
  OBVIOUS
<1>1. CASE \/ \E on \in {"Kit", "Asset", "EditorProfile"} : CorrectDetails(on)
           \/ AddKitAsset \/ RemoveKitAsset
  BY <1>1, AuditedStep
<1>2. CASE ReportIssue \/ SettleIssue
  BY <1>2, IssueStep
<1>3. ASSUME NEW b \in TrailBookings, CreateBooking(b)
      PROVE  HistoriesInv'
  BY <1>3, CreateStep
<1>4. ASSUME NEW b \in TrailBookings, CancelBooking(b)
      PROVE  HistoriesInv'
  BY <1>4, CancelStep
<1>5. ASSUME NEW b \in TrailBookings, NEW d \in Documents, StartDocument(b, d)
      PROVE  HistoriesInv'
  BY <1>5, StartStep
<1>6. ASSUME NEW b \in TrailBookings, NEW d \in Documents, CompleteDocument(b, d)
      PROVE  HistoriesInv'
  BY <1>6, CompleteStep
<1>7. CASE UNCHANGED historyVars
  <2>1. UNCHANGED <<instant, past, audit, membership, booked, inspected, raised, statusLog>>
    BY <1>7 DEF historyVars
  <2>2. HistoriesTypeOK'
    BY <2>1 DEF HistoriesInv, HistoriesTypeOK
  <2>3. RowsAreTrue'
    BY <2>1 DEF HistoriesInv, RowsAreTrue, BookingsAreTrue, Happened
  <2>4. PastIsInRows'
    BY <2>1 DEF HistoriesInv, PastIsInRows, IsLogged, IsOnRecord, AuditOf
  <2>5. RowsComeOneByOne' /\ StepByStep'
    BY <2>1 DEF HistoriesInv, RowsComeOneByOne, StepByStep
  <2> QED
    BY <2>2, <2>3, <2>4, <2>5 DEF HistoriesInv
<1> QED
  BY <1>1, <1>2, <1>3, <1>4, <1>5, <1>6, <1>7 DEF HistoriesNext

\* Whatever happened, in whatever order, and however little a trail shows: it
\* tells nothing that did not happen, nothing twice, and leaves out only what is
\* older than all it shows, was rewritten, or was cut off (the three trails of
\* getKitHistory, getAssetHistory and getEditorActivity).
THEOREM TrailsAreTrue == HistoriesSpec => []TrailsTellThePast
<1>1. HistoriesInv => TrailsTellThePast
  <2> SUFFICES ASSUME HistoriesInv, NEW on \in {"Kit", "Asset", "EditorProfile"},
                      NEW limit \in TrailLimits
               PROVE  TellsThePast(on, Trail(on, limit), limit)
    BY DEF TrailsTellThePast, TellsThePast
  <2>1. limit \in Nat
    BY HistoriesAssumption
  <2>2. CASE on = "Kit"
    BY <2>1, <2>2, KitHistoryTells DEF Trail
  <2>3. CASE on = "Asset"
    BY <2>1, <2>3, AssetHistoryTells DEF Trail
  <2>4. CASE on = "EditorProfile"
    BY <2>1, <2>4, EditorActivityTells DEF Trail
  <2> QED
    BY <2>2, <2>3, <2>4
<1> QED
  BY <1>1, HistoriesStart, HistoriesStep, PTL DEF HistoriesSpec
=============================================================================
