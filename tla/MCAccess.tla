------------------------------- MODULE MCAccess -------------------------------
(* Small instances of Accounts and of Summaries over Lists: a behaviour is one *)
(* of either, as its scene says.                                               *)
EXTENDS Accounts, Summaries

CONSTANTS local, corporate, desk, editor

VARIABLE scene

MCUsers == {local, corporate}
\* The corporate person may be found in the engineers' and the viewers' groups,
\* or in none.
MCGroupRoles == [u \in MCUsers |-> {{}, {"ENGINEER", "VIEWER"}}]
MCNoGroups   == [u \in MCUsers |-> {{}}]
\* The break-glass administrator is changed twice, the other once.
MCMaxVersion == [u \in MCUsers |-> IF u = local THEN 1 ELSE 0]

\* Somebody who sees every booking, and somebody who sees his own.
MCAccounts == {desk, editor}
MCRoleOf == [a \in MCAccounts |-> IF a = desk THEN "ENGINEER" ELSE "EDITOR"]

Interchangeable == Permutations(Callers)

AccessInit ==
    /\ scene \in {"accounts", "lists"}
    /\ AccountsInit /\ ListsInit
    /\ scene = "accounts" \/ account = [u \in Users |-> account[local]]
    /\ scene = "lists" \/ (kind = "kits" /\ rows = [r \in Records |-> Missing])
    /\ rows[2].start = 0 /\ rows[2].date < Now

\* What is written during a walk makes the first row come or go; the second
\* record, if it is a booking, started before today and was due before now.
ComesOrGoes ==
    rows' = rows \/ (rows'[2] = rows[2] /\ Missing \in {rows[1], rows'[1]})

AccessNext ==
    /\ UNCHANGED scene
    /\ \/ scene = "accounts" /\ AccountsNext /\ UNCHANGED listVars
       \/ scene = "lists" /\ ListsNext /\ ComesOrGoes /\ UNCHANGED accountVars

AccessSpec == AccessInit /\ [][AccessNext]_<<scene, accountVars, listVars>>
=============================================================================
