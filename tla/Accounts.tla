------------------------------ MODULE Accounts ------------------------------
(***************************************************************************)
(* Accounts, who may administer them, and the sessions people hold.        *)
(*                                                                         *)
(* A request resolves its session against the account, once, and then runs *)
(* its transaction: calls read the account's row, decide, and write by     *)
(* primary key, at READ COMMITTED, over whatever was committed meanwhile.  *)
(* A sign-in reads the row before it verifies a password, which takes long.*)
(* The directory (LDAP) is external: it says yes or no and names groups.   *)
(***************************************************************************)
EXTENDS Integers, FiniteSets, TLC

CONSTANTS Users,              \* people; also their accounts
          Callers,            \* calls that can be under way at once
          LocalUsers,         \* accounts with a local password
          Administrators,     \* the accounts that begin as administrators; one is seeded
          Newcomers,          \* accounts that may be missing at first
          Grantable,          \* roles an administrator gives
          Settable,           \* statuses an administrator gives
          GroupRoles,         \* [Users -> what the roles their directory groups
                              \* map to may be found to be]
          AutoProvision,      \* LDAP_AUTO_PROVISION
          DefaultRole,        \* LDAP_DEFAULT_ROLE
          MaxLoginAttempts,   \* MAX_LOGIN_ATTEMPTS
          LoginLockout,       \* LOGIN_LOCKOUT_MINUTES, in ticks
          MaxTime, MaxWrongs,   \* bounds
          MaxVersion,         \* bound on the version from which an account is changed
          NoUser

UserRoles    == {"ADMIN", "ENGINEER", "EDITOR", "VIEWER"}
UserStatuses == {"ACTIVE", "SUSPENDED", "DISABLED"}

ASSUME AccountsAssumption ==
    /\ LocalUsers \cup Administrators \cup Newcomers \subseteq Users
    /\ Newcomers \cap LocalUsers = {}
    /\ Administrators \ Newcomers # {}
    /\ Grantable \subseteq UserRoles /\ Settable \subseteq UserStatuses /\ DefaultRole \in UserRoles \ {"ADMIN"}
    /\ GroupRoles \in [Users -> SUBSET (SUBSET UserRoles)]
    /\ AutoProvision \in BOOLEAN
    /\ {MaxLoginAttempts, LoginLockout} \subseteq Nat \ {0}
    /\ {MaxTime, MaxWrongs} \subseteq Nat /\ MaxVersion \in [Users -> Nat]
    /\ NoUser \notin Users

VARIABLES
    account,   \* account[u]: the User row; status "NONE" while there is none
    token,     \* token[u]: the session version in u's cookie, or NoToken
    call,      \* call[c]: the call under way
    now,
    wrongs,    \* (history) wrong passwords typed for u
    revoked,   \* (history) people whose cookie is older than their last
               \* change of role or status
    crossed    \* (history) an administrator was removed by a call that was
               \* authorised before another one was

accountVars == <<account, token, call, now, wrongs, revoked, crossed>>

AdminOps  == {"setUserRole", "setUserStatus", "unlockUser"}
SignInOps == {"verifyCredentials", "signInWithDirectory"}

NoToken == -1
NoAccount   == [role |-> DefaultRole, status |-> "NONE", version |-> 0,
            failed |-> 0, lockedUntil |-> 0, linked |-> FALSE]

\* op: the operation; at: "idle", "asked" (authorised) or "read" (the row is
\* read and the checks passed); row: what a sign-in read
\* and uses.  mapped: the role the directory's groups have it write, if any.
\* missed: what committed since: "account", a change of role or status of the
\* target after its row was read; "administrators", the removal of one after
\* the call was authorised.
Idle == [op |-> "none", at |-> "idle", target |-> NoUser, arg |-> "none",
         row |-> NoAccount, mapped |-> "none", asOf |-> 0, missed |-> {}]

AccountRows ==
    [role : UserRoles, status : UserStatuses \cup {"NONE"}, version : Nat,
     failed : 0 .. MaxWrongs, lockedUntil : 0 .. MaxTime + LoginLockout, linked : BOOLEAN]

AccountsTypeOK ==
    /\ account \in [Users -> AccountRows]
    /\ token \in [Users -> {NoToken} \cup Nat]
    /\ \A c \in Callers :
         /\ call[c].op \in AdminOps \cup SignInOps \cup {"none"}
         /\ call[c].at \in {"idle", "asked", "read"}
         /\ call[c].target \in Users \cup {NoUser}
         /\ call[c].row \in AccountRows
         /\ call[c].missed \subseteq {"account", "administrators"}
    /\ now \in 0 .. MaxTime
    /\ wrongs \in [Users -> 0 .. MaxWrongs]
    /\ revoked \subseteq Users
    /\ crossed \in BOOLEAN

Created(u) ==
    [NoAccount EXCEPT !.role = IF u \in Administrators THEN "ADMIN" ELSE DefaultRole,
                  !.status = "ACTIVE"]

AccountsInit ==
    /\ \E absent \in SUBSET Newcomers :
         account = [u \in Users |-> IF u \in absent THEN NoAccount ELSE Created(u)]
    /\ token = [u \in Users |-> NoToken]
    /\ call = [c \in Callers |-> Idle]
    /\ now = 0
    /\ wrongs = [u \in Users |-> 0]
    /\ revoked = {}
    /\ crossed = FALSE

-----------------------------------------------------------------------------
(* Sessions *)

\* revalidateToken: the cookie survives only while the account is ACTIVE and
\* carries the version the cookie was issued with.
TokenHolds(u) == account[u].status = "ACTIVE" /\ account[u].version = token[u]

\* resolveSession, behind requirePermission: the account is read once more.
SignedIn(u)  == token[u] # NoToken /\ TokenHolds(u)
IsActiveAdmin(row) == row.role = "ADMIN" /\ row.status = "ACTIVE"
MayManageUsers(u)  == SignedIn(u) /\ account[u].role = "ADMIN"

\* Any request with a cookie that no longer holds clears it.
Revalidate(u) ==
    /\ token[u] # NoToken /\ ~TokenHolds(u)
    /\ token' = [token EXCEPT ![u] = NoToken]
    /\ revoked' = revoked \ {u}
    /\ UNCHANGED <<account, call, now, wrongs, crossed>>

\* The effect of a committed write on what the calls under way and the cookies
\* in people's browsers know.
Overtake(c, u, row) ==
    LET changed == row.role # account[u].role \/ row.status # account[u].status
        removal == IsActiveAdmin(account[u]) /\ ~IsActiveAdmin(row)
    IN  /\ call' = [d \in Callers |->
             IF d = c THEN Idle
             ELSE IF call[d] = Idle THEN Idle
             ELSE [call[d] EXCEPT !.missed = @ \cup
                     (IF changed /\ call[d].target = u /\ call[d].op \in SignInOps
                      THEN {"account"} ELSE {})
                     \cup (IF removal /\ call[d].op \notin {"verifyCredentials", "unlockUser"}
                           THEN {"administrators"} ELSE {})]]
        /\ crossed' = (crossed \/ (removal /\ "administrators" \in call[c].missed))

Commit(c, u, row) ==
    /\ account' = [account EXCEPT ![u] = row]
    /\ Overtake(c, u, row)

Ends(c) ==
    /\ call' = [call EXCEPT ![c] = Idle]
    /\ UNCHANGED <<account, token, wrongs, revoked, crossed>>

-----------------------------------------------------------------------------
(* Administration *)

\* requirePermission('admin.users.manage'), and never on oneself (but for a
\* lockout, which clears for anyone).
AskAdmin(c, actor, op, target, arg) ==
    /\ call[c] = Idle
    /\ MayManageUsers(actor)
    /\ actor = target => op = "unlockUser"
    /\ call' = [call EXCEPT ![c] =
                  [Idle EXCEPT !.op = op, !.at = "asked", !.target = target, !.arg = arg]]
    /\ UNCHANGED <<account, token, now, wrongs, revoked, crossed>>

\* (Fault) the count of the others counts the one being demoted.
OtherAdminsCountingAll(u) == {v \in Users : IsActiveAdmin(account[v])}

OtherAdmins(u) == {v \in Users \ {u} : IsActiveAdmin(account[v])}

\* setUserRole reads the account and, for an administrator, counts the others;
\* what it then writes does not depend on what has changed since.
ReadForRole(c) ==
    LET k == call[c]  u == k.target IN
    /\ k.at = "asked" /\ k.op = "setUserRole"
    /\ IF /\ account[u].status # "NONE" /\ account[u].role # k.arg
          /\ account[u].role = "ADMIN" => OtherAdmins(u) # {}
       THEN /\ call' = [call EXCEPT ![c].at = "read"]
            /\ UNCHANGED <<account, token, wrongs, revoked, crossed>>
       ELSE Ends(c)
    /\ UNCHANGED now

\* A change of role or status moves the session version, so every cookie of
\* the account is refused from the next request on.
Revoking(u) == revoked' = IF token[u] # NoToken THEN revoked \cup {u} ELSE revoked

\* (Fault) a new role takes effect with the next sign-in.
SetUserRoleQuietly(c) ==
    LET u == call[c].target IN
    /\ call[c].at = "read" /\ call[c].op = "setUserRole"
    /\ Commit(c, u, [account[u] EXCEPT !.role = call[c].arg])
    /\ Revoking(u)
    /\ UNCHANGED <<token, now, wrongs>>

SetUserRole(c) ==
    LET u == call[c].target IN
    /\ call[c].at = "read" /\ call[c].op = "setUserRole"
    /\ account[u].version <= MaxVersion[u]
    /\ Commit(c, u, [account[u] EXCEPT !.role = call[c].arg, !.version = @ + 1])
    /\ Revoking(u)
    /\ UNCHANGED <<token, now, wrongs>>

\* setUserStatus and unlockUser check only what their write leaves as it is, so
\* the two statements are one step; one that finds nothing to do just ends.
SetUserStatus(c) ==
    LET u == call[c].target
        to == call[c].arg
        moved == [account[u] EXCEPT !.status = to, !.version = @ + 1]
    IN  /\ call[c].op = "setUserStatus"
        /\ account[u].status # "NONE"
        /\ account[u].version <= MaxVersion[u]
        /\ Commit(c, u, IF to = "ACTIVE" THEN [moved EXCEPT !.failed = 0, !.lockedUntil = 0]
                        ELSE moved)
        /\ Revoking(u)
        /\ UNCHANGED <<token, now, wrongs>>

UnlockUser(c) ==
    LET u == call[c].target IN
    /\ call[c].op = "unlockUser"
    /\ account[u].lockedUntil # 0 \/ account[u].failed # 0
    /\ Commit(c, u, [account[u] EXCEPT !.failed = 0, !.lockedUntil = 0])
    /\ UNCHANGED <<token, now, wrongs, revoked>>

NothingToAdminister(c) ==
    LET k == call[c]  row == account[k.target] IN
    /\ \/ k.op = "setUserStatus" /\ row.status = "NONE"
       \/ k.op = "unlockUser" /\ row.lockedUntil = 0 /\ row.failed = 0
    /\ Ends(c)
    /\ UNCHANGED now

-----------------------------------------------------------------------------
(* Signing in with a local password *)

\* signInWithPassword: the email of an account with a password stays here,
\* every other name goes to the directory, a corporate username of the same
\* person included.
HasLocalPassword(u) == u \in LocalUsers

\* The row is read first; verifying the password takes the time after it.
\* arg is whether the password will prove right.
ReadForCredentials(c, u, matches) ==
    /\ call[c] = Idle
    /\ HasLocalPassword(u) /\ account[u].status # "NONE"
    /\ matches = "wrong" => wrongs[u] < MaxWrongs
    /\ call' = [call EXCEPT ![c] = [Idle EXCEPT !.op = "verifyCredentials", !.at = "read",
                   !.target = u, !.arg = matches, !.asOf = now,
                   !.row = IF matches = "wrong"
                           THEN [NoAccount EXCEPT !.failed = account[u].failed,
                                              !.lockedUntil = account[u].lockedUntil]
                           ELSE [account[u] EXCEPT !.failed = 0, !.role = DefaultRole]]]
    /\ wrongs' = [wrongs EXCEPT ![u] = IF matches = "wrong" THEN @ + 1 ELSE @]
    /\ UNCHANGED <<account, token, now, revoked, crossed>>

\* (Fault) a refused sign-in counts, whatever it was refused for.
WrongPasswordOrRefused(c) ==
    LET k == call[c]  n == k.row.failed + 1 IN
    /\ k.at = "read" /\ k.op = "verifyCredentials"
    /\ k.arg = "wrong" \/ k.row.lockedUntil > k.asOf \/ k.row.status # "ACTIVE"
    /\ n <= MaxWrongs
    /\ Commit(c, k.target, [account[k.target] EXCEPT !.failed = n,
              !.lockedUntil = IF n >= MaxLoginAttempts THEN k.asOf + LoginLockout
                              ELSE k.row.lockedUntil])
    /\ UNCHANGED <<token, now, wrongs, revoked>>

\* The counter and the lock are written from the row as it was read.
WrongPassword(c) ==
    LET k == call[c]  n == k.row.failed + 1 IN
    /\ k.at = "read" /\ k.op = "verifyCredentials" /\ k.arg = "wrong"
    /\ Commit(c, k.target, [account[k.target] EXCEPT !.failed = n,
              !.lockedUntil = IF n >= MaxLoginAttempts THEN k.asOf + LoginLockout
                              ELSE k.row.lockedUntil])
    /\ UNCHANGED <<token, now, wrongs, revoked>>

\* The session carries the version of the row that was read.
IssueToken(u, version, stale) ==
    /\ token' = [token EXCEPT ![u] = version]
    /\ revoked' = IF stale THEN revoked \cup {u} ELSE revoked \ {u}

RightPassword(c) ==
    LET k == call[c] IN
    /\ k.at = "read" /\ k.op = "verifyCredentials" /\ k.arg = "right"
    /\ IF k.row.lockedUntil > k.asOf \/ k.row.status # "ACTIVE"
       THEN Ends(c)
       ELSE /\ Commit(c, k.target, [account[k.target] EXCEPT !.failed = 0, !.lockedUntil = 0])
            /\ IssueToken(k.target, k.row.version, "account" \in k.missed)
            /\ UNCHANGED wrongs
    /\ UNCHANGED now

-----------------------------------------------------------------------------
(* Signing in with the directory *)

\* The most powerful role the groups map to; "none" when none maps.
RoleFromGroups(groups) ==
    IF "ADMIN" \in groups THEN "ADMIN"
    ELSE IF "ENGINEER" \in groups THEN "ENGINEER"
    ELSE IF "EDITOR" \in groups THEN "EDITOR"
    ELSE IF "VIEWER" \in groups THEN "VIEWER" ELSE "none"

\* (Fault) any account with the identity's email is claimed.
HowResolvedByEmail(u) ==
    IF account[u].linked THEN "linked"
    ELSE IF account[u].status = "ACTIVE" THEN "claim"
    ELSE IF account[u].status = "NONE" /\ AutoProvision THEN "provision"
    ELSE "none"

\* resolveAccount: linked already, claimed by email (ACTIVE, no password, not
\* linked), or provisioned; otherwise there is no account.
HowResolved(u) ==
    IF account[u].linked THEN "linked"
    ELSE IF account[u].status = "ACTIVE" /\ ~HasLocalPassword(u) THEN "claim"
    ELSE IF account[u].status = "NONE" /\ AutoProvision THEN "provision"
    ELSE "none"

\* A provisioned account has the mapped role or the default one;
\* refreshFromDirectory applies a mapped role to an account there is, unless
\* that would demote the last active administrator.
RoleToApply(u, groups) ==
    LET mapped == RoleFromGroups(groups) IN
    IF account[u].status = "NONE"
    THEN IF mapped = "none" THEN DefaultRole ELSE mapped
    ELSE IF mapped = account[u].role \/ (account[u].role = "ADMIN" /\ OtherAdmins(u) = {})
    THEN "none"
    ELSE mapped

\* The directory vouched for u: the transaction finds the account and decides
\* what to write.  arg is how the account was found.
ReadForDirectory(c, u, groups) ==
    /\ call[c] = Idle
    /\ HowResolved(u) # "none"
    /\ HowResolved(u) = "linked" => account[u].status = "ACTIVE"
    /\ call' = [call EXCEPT ![c] =
          [Idle EXCEPT !.op = "signInWithDirectory", !.at = "read", !.target = u,
                       !.arg = HowResolved(u), !.row = [NoAccount EXCEPT !.version = account[u].version],
                       !.mapped = RoleToApply(u, groups)]]
    /\ UNCHANGED <<account, token, now, wrongs, revoked, crossed>>

Provisioned(role) == [NoAccount EXCEPT !.status = "ACTIVE", !.linked = TRUE, !.role = role]

\* An identity is linked once (provider, providerAccountId) and an email has
\* one account: the second of two first sign-ins is rolled back.
DirectoryRefused(c) ==
    LET k == call[c] IN
    /\ k.at = "read" /\ k.op = "signInWithDirectory"
    /\ \/ k.arg = "claim" /\ account[k.target].linked
       \/ k.arg = "provision" /\ account[k.target].status # "NONE"
    /\ Ends(c)
    /\ UNCHANGED now

SignInWithDirectory(c) ==
    LET k == call[c]  u == k.target
        remapped == k.arg # "provision" /\ k.mapped # "none"
        base == [account[u] EXCEPT !.linked = TRUE, !.failed = 0, !.lockedUntil = 0]
        row  == IF k.arg = "provision" THEN Provisioned(k.mapped)
                ELSE IF remapped THEN [base EXCEPT !.role = k.mapped, !.version = @ + 1]
                ELSE base
    IN  /\ k.at = "read" /\ k.op = "signInWithDirectory"
        /\ k.arg = "claim" => ~account[u].linked
        /\ k.arg = "provision" => account[u].status = "NONE"
        /\ row.version <= MaxVersion[u] + 1
        /\ Commit(c, u, row)
        /\ IssueToken(u, IF remapped THEN row.version ELSE k.row.version,
                         ~remapped /\ "account" \in k.missed)
        /\ UNCHANGED <<now, wrongs>>

-----------------------------------------------------------------------------
SignOut(u) ==
    /\ token[u] # NoToken
    /\ token' = [token EXCEPT ![u] = NoToken]
    /\ revoked' = revoked \ {u}
    /\ UNCHANGED <<account, call, now, wrongs, crossed>>

PassTime ==
    /\ now < MaxTime
    /\ now' = now + 1
    /\ UNCHANGED <<account, token, call, wrongs, revoked, crossed>>

Administer(c) ==
    \/ \E actor, u \in Users :
         \/ \E r \in Grantable : AskAdmin(c, actor, "setUserRole", u, r)
         \/ \E s \in Settable : AskAdmin(c, actor, "setUserStatus", u, s)
         \/ AskAdmin(c, actor, "unlockUser", u, "none")
    \/ ReadForRole(c)
    \/ SetUserRole(c)
    \/ SetUserStatus(c)
    \/ UnlockUser(c)
    \/ NothingToAdminister(c)

SignIn(c) ==
    \/ \E u \in Users :
         \/ \E m \in {"right", "wrong"} : ReadForCredentials(c, u, m)
         \/ \E groups \in GroupRoles[u] : ReadForDirectory(c, u, groups)
    \/ WrongPassword(c)
    \/ RightPassword(c)
    \/ DirectoryRefused(c)
    \/ SignInWithDirectory(c)

AccountsNext ==
    \/ \E c \in Callers : Administer(c) \/ SignIn(c)
    \/ \E u \in Users : Revalidate(u) \/ SignOut(u)
    \/ PassTime

AccountsSpec == AccountsInit /\ [][AccountsNext]_accountVars

-----------------------------------------------------------------------------
(* Properties *)

\* A cookie issued from a row read before the account's last change of role or
\* status is never accepted, however the sign-in, the change and a later
\* reactivation interleave (sessionVersion, revalidateToken).
RevokedIsSignedOut == \A u \in revoked : ~SignedIn(u)

\* Somebody can always give the administrator role back, unless two removals
\* crossed: each was authorised, or counted the others, before the other was
\* committed.  One removal at a time never leaves nobody (setUserRole,
\* setUserStatus, refreshFromDirectory).
SomeAdministrator == crossed \/ \E u \in Users : IsActiveAdmin(account[u])

\* The code's claim for the last administrator, "somebody has to be able to grant
\* the role back" (admin.service.ts:52-53), whatever crosses.  Two administrators
\* who remove each other at once have each counted the other.
RoleCanBeGrantedBack == \E u \in Users : IsActiveAdmin(account[u])

\* Only wrong passwords count towards a lockout: however attempts overlap, an
\* account never has more of them on record than were typed, and a lock needs
\* as many as the limit (verifyCredentials).
LockoutsAreEarned ==
    \A u \in Users :
        /\ account[u].failed <= wrongs[u]
        /\ account[u].lockedUntil # 0 => wrongs[u] >= MaxLoginAttempts

\* An account with a local password is never tied to a directory identity, and
\* an account the directory speaks for is never locked out by passwords typed
\* here (resolveAccount's three guards, hasLocalPassword).
BreakGlassStaysLocal ==
    \A u \in Users :
        /\ u \in LocalUsers => ~account[u].linked
        /\ account[u].linked => account[u].failed = 0 /\ account[u].lockedUntil = 0
=============================================================================
