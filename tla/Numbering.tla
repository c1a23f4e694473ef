------------------------------- MODULE Numbering -------------------------------
(***************************************************************************)
(* Reference numbers.  A counter row per kind and period is incremented by *)
(* one statement inside the transaction that writes the numbered row; the  *)
(* row is locked until that transaction ends, and a roll-back takes the    *)
(* increment with it.  A return, which raises issues, is SERIALIZABLE: a   *)
(* counter that moved since its snapshot fails it.                         *)
(***************************************************************************)
EXTENDS Integers, FiniteSets

CONSTANTS Scopes,       \* kinds that restart every year, and kinds that do not
          GlobalScopes, \* the kinds that do not
          Years,
          Takers,       \* transactions that can be under way at once
          MaxNumber,    \* bound on a counter
          NoScope

ASSUME NumberingAssumption ==
    /\ GlobalScopes \subseteq Scopes /\ NoScope \notin Scopes
    /\ Years \subseteq Nat /\ Years # {} /\ IsFiniteSet(Years)
    /\ MaxNumber \in Nat

\* GLOBAL_PERIOD, or the year.
GlobalPeriod == -1
Periods      == Years \cup {GlobalPeriod}

VARIABLES
    year,
    counter,    \* counter[s, p]: the committed value; 0 while there is no row
    numbered,   \* numbered[s, p]: numbers that committed rows carry
    taking      \* taking[t]: the transaction under way

numberVars == <<year, counter, numbered, taking>>

\* The rows written so far carry the numbers after `from', up to `upTo'.  seen:
\* what a SERIALIZABLE transaction found in the counter's row, or -1.
NoTaking == [scope |-> NoScope, period |-> GlobalPeriod, from |-> 0, upTo |-> 0, seen |-> -1]

Transactions ==
    [scope : Scopes \cup {NoScope}, period : Periods, from : 0 .. MaxNumber,
     upTo : 0 .. MaxNumber, seen : -1 .. MaxNumber]

NumberingTypeOK ==
    /\ year \in Years
    /\ counter \in [Scopes \X Periods -> 0 .. MaxNumber]
    /\ numbered \in [Scopes \X Periods -> SUBSET (1 .. MaxNumber)]
    /\ taking \in [Takers -> Transactions]

NumberingInit ==
    /\ year \in Years
    /\ counter = [k \in Scopes \X Periods |-> 0]
    /\ numbered = [k \in Scopes \X Periods |-> {}]
    /\ taking = [t \in Takers |-> NoTaking]

-----------------------------------------------------------------------------
\* resolvePeriod.
PeriodOf(s, y) == IF s \in GlobalScopes THEN GlobalPeriod ELSE y

\* The transaction works out the period once, from the time it starts at.
BeginNumbering(t, s, serializable) ==
    LET p == PeriodOf(s, year) IN
    /\ taking[t] = NoTaking
    /\ taking' = [taking EXCEPT ![t] = [NoTaking EXCEPT !.scope = s, !.period = p,
                                          !.seen = IF serializable THEN counter[<<s, p>>] ELSE -1]]
    /\ UNCHANGED <<year, counter, numbered>>

Counter(t) == <<taking[t].scope, taking[t].period>>

HasTaken(t) == taking[t].upTo > taking[t].from
Drawn(t)    == (taking[t].from + 1) .. taking[t].upTo

\* Another transaction has incremented the same row and has not ended.
CounterLocked(t) == \E o \in Takers \ {t} : Counter(o) = Counter(t) /\ HasTaken(o)

\* INSERT ... ON CONFLICT DO UPDATE ... RETURNING: it waits for the row, and
\* sees what is committed by then and what it took already.
TakeNumber(t) ==
    LET k == taking[t]
        from == IF HasTaken(t) THEN k.from ELSE counter[Counter(t)]
        upTo == (IF HasTaken(t) THEN k.upTo ELSE from) + 1
    IN  /\ k.scope # NoScope
        /\ ~CounterLocked(t)
        /\ k.seen # -1 => k.seen = counter[Counter(t)]
        /\ upTo <= MaxNumber
        /\ taking' = [taking EXCEPT ![t].from = from, ![t].upTo = upTo]
        /\ UNCHANGED <<year, counter, numbered>>

CommitNumbered(t) ==
    /\ HasTaken(t)
    /\ counter' = [counter EXCEPT ![Counter(t)] = taking[t].upTo]
    /\ numbered' = [numbered EXCEPT ![Counter(t)] = @ \cup Drawn(t)]
    /\ taking' = [taking EXCEPT ![t] = NoTaking]
    /\ UNCHANGED year

\* (Fault) the counter is a sequence, or is written outside the transaction: a
\* number that was drawn is gone.
RollBackBurning(t) ==
    /\ taking[t] # NoTaking
    /\ counter' = IF HasTaken(t) THEN [counter EXCEPT ![Counter(t)] = taking[t].upTo] ELSE counter
    /\ taking' = [taking EXCEPT ![t] = NoTaking]
    /\ UNCHANGED <<year, numbered>>

\* Any failure after it began: the insert is refused, the connection lost, a
\* counter moved under a SERIALIZABLE transaction.
RollBackNumbered(t) ==
    /\ taking[t] # NoTaking
    /\ taking' = [taking EXCEPT ![t] = NoTaking]
    /\ UNCHANGED <<year, counter, numbered>>

NewYear ==
    /\ year + 1 \in Years
    /\ year' = year + 1
    /\ UNCHANGED <<counter, numbered, taking>>

NumberingNext ==
    \/ \E t \in Takers :
         \/ \E s \in Scopes, serializable \in BOOLEAN : BeginNumbering(t, s, serializable)
         \/ TakeNumber(t) \/ CommitNumbered(t) \/ RollBackNumbered(t)
    \/ NewYear

NumberingSpec == NumberingInit /\ [][NumberingNext]_numberVars

-----------------------------------------------------------------------------
(* Properties *)

\* Whatever fails and in whatever order transactions end, the references of
\* a kind and period are 1 to the counter, none missing and none twice (nextNumber,
\* inside the caller's transaction).
NoGapsInNumbers == \A k \in Scopes \X Periods : numbered[k] = 1 .. counter[k]
=============================================================================
