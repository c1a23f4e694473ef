--------------------------- MODULE AccountProofs ----------------------------
(***************************************************************************)
(* Proofs about who may do and see what: Accounts, for every set of        *)
(* people, any number of calls at once and every limit, and Lists with     *)
(* Summaries, for every finite set of records, every page size and every   *)
(* person who looks.                                                       *)
(*                                                                         *)
(* One invariant carries the four properties of Accounts: it says of every *)
(* account what holds between calls, and of every call under way what it   *)
(* may still rely on of what it read.  The numbers of Lists agree in every *)
(* state of the tables; that a walk shows everything rests on an invariant *)
(* of the walk and on there being one order only.                          *)
(***************************************************************************)
EXTENDS Accounts, Summaries, SequenceTheorems, FiniteSetTheorems, FunctionTheorems,
        WellFoundedInduction, TLAPS

UserRows ==
    [role : UserRoles, status : UserStatuses \cup {"NONE"}, version : Nat,
     failed : Nat, lockedUntil : Nat, linked : BOOLEAN]

Args == UserRoles \cup UserStatuses
        \cup {"none", "right", "wrong", "linked", "claim", "provision"}

Calls ==
    [op : AdminOps \cup SignInOps \cup {"none"}, at : {"idle", "asked", "read"},
     target : Users \cup {NoUser}, arg : Args, row : UserRows, mapped : UserRoles \cup {"none"},
     asOf : Nat, missed : SUBSET {"account", "administrators"}]

\* Between an account, its cookie and the passwords typed for it.
RowSound(u) ==
    /\ token[u] <= account[u].version
    /\ u \in revoked => token[u] < account[u].version
    /\ account[u].status = "NONE" =>
         /\ u \notin LocalUsers /\ account[u].version = 0
         /\ account[u].failed = 0 /\ account[u].lockedUntil = 0
    /\ account[u].failed <= wrongs[u]
    /\ account[u].lockedUntil # 0 => wrongs[u] >= MaxLoginAttempts
    /\ u \in LocalUsers => ~account[u].linked
    /\ account[u].linked => account[u].failed = 0 /\ account[u].lockedUntil = 0

\* What a sign-in with a password read: the version it will issue a cookie for
\* has not been overtaken unless it missed that; what it will write on a wrong
\* password was typed.
CredentialsRead(k) ==
    k.op = "verifyCredentials" =>
        /\ k.target \in LocalUsers
        /\ k.arg = "right" =>
             /\ k.row.version <= account[k.target].version
             /\ "account" \in k.missed => k.row.version < account[k.target].version
        /\ k.arg = "wrong" =>
             /\ k.row.failed + 1 <= wrongs[k.target]
             /\ k.row.lockedUntil # 0 => wrongs[k.target] >= MaxLoginAttempts

DirectoryRead(k) ==
    k.op = "signInWithDirectory" =>
        /\ k.target \notin LocalUsers
        /\ k.mapped \in UserRoles \cup {"none"}
        /\ IF k.arg = "provision"
           THEN /\ k.mapped # "none" /\ k.row.version = 0
                /\ "account" \in k.missed => account[k.target].status # "NONE"
           ELSE /\ account[k.target].status # "NONE"
                /\ k.row.version <= account[k.target].version
                /\ "account" \in k.missed => k.row.version < account[k.target].version

AdministrationRead(k) ==
    /\ k.op = "setUserRole" => k.arg \in UserRoles
    /\ k.op = "setUserRole" /\ k.at = "read" => account[k.target].status # "NONE"
    /\ k.op = "setUserStatus" => k.arg \in UserStatuses

\* The calls that may take the administrator role from their target.
MayRemove(k) ==
    \/ k.op \in {"setUserRole", "setUserStatus"}
    \/ k.op = "signInWithDirectory" /\ k.arg # "provision" /\ k.mapped # "none"

\* Nobody was removed since the call was authorised: somebody else is there.
AnotherIsThere(k) ==
    MayRemove(k) /\ "administrators" \notin k.missed => crossed \/ OtherAdmins(k.target) # {}

CallSound(k) ==
    /\ k.op # "none" => k.target \in Users
    /\ CredentialsRead(k) /\ DirectoryRead(k) /\ AdministrationRead(k) /\ AnotherIsThere(k)

AccountsInv ==
    /\ account \in [Users -> UserRows]
    /\ token \in [Users -> Nat \cup {NoToken}]
    /\ wrongs \in [Users -> Nat] /\ now \in Nat /\ revoked \subseteq Users /\ crossed \in BOOLEAN
    /\ call \in [Callers -> Calls]
    /\ \A c \in Callers : CallSound(call[c])
    /\ \A u \in Users : RowSound(u)
    /\ SomeAdministrator

LEMMA IdleIsACall == NoAccount \in UserRows /\ Idle \in Calls
<1>1. NoAccount \in UserRows
  BY AccountsAssumption DEF NoAccount, UserRows
<1> QED
  BY <1>1 DEF Idle, Calls, Args

LEMMA AccountsBegin == AccountsInit => AccountsInv
<1> SUFFICES ASSUME AccountsInit
             PROVE  AccountsInv
  OBVIOUS
<1>1. PICK absent \in SUBSET Newcomers :
        account = [u \in Users |-> IF u \in absent THEN NoAccount ELSE Created(u)]
  BY DEF AccountsInit
<1>2. NoAccount \in UserRows /\ NoAccount.version = 0 /\ NoAccount.failed = 0
      /\ NoAccount.lockedUntil = 0 /\ ~NoAccount.linked
  BY AccountsAssumption DEF NoAccount, UserRows
<1>3. ASSUME NEW u \in Users
      PROVE  /\ Created(u) \in UserRows /\ Created(u).version = 0 /\ Created(u).failed = 0
             /\ Created(u).lockedUntil = 0 /\ ~Created(u).linked /\ Created(u).status = "ACTIVE"
             /\ u \in Administrators => Created(u).role = "ADMIN"
  <2> DEFINE role == IF u \in Administrators THEN "ADMIN" ELSE DefaultRole
  <2>1. Created(u) = [NoAccount EXCEPT !.role = role, !.status = "ACTIVE"]
    BY DEF Created
  <2>2. role \in UserRoles
    BY AccountsAssumption DEF UserRoles
  <2>3. u \in Administrators => role = "ADMIN"
    OBVIOUS
  <2> HIDE DEF role
  <2> QED
    BY <1>2, <2>1, <2>2, <2>3 DEF UserRows, UserStatuses
<1>4. account \in [Users -> UserRows]
  BY <1>1, <1>2, <1>3
<1>5. /\ token = [u \in Users |-> NoToken] /\ wrongs = [u \in Users |-> 0] /\ now = 0
      /\ revoked = {} /\ crossed = FALSE /\ call = [c \in Callers |-> Idle]
  BY DEF AccountsInit
<1>6. ASSUME NEW u \in Users
      PROVE  RowSound(u)
  <2>1. /\ account[u].version = 0 /\ account[u].failed = 0 /\ account[u].lockedUntil = 0
        /\ ~account[u].linked /\ (account[u].status = "NONE" => u \in Newcomers)
    BY <1>1, <1>2, <1>3
  <2>2. u \notin LocalUsers \/ u \notin Newcomers
    BY AccountsAssumption
  <2> QED
    BY <1>5, <2>1, <2>2 DEF RowSound, NoToken
<1>7. SomeAdministrator
  <2>1. PICK u \in Administrators \ Newcomers : TRUE
    BY AccountsAssumption
  <2>2. u \in Users /\ account[u] = Created(u)
    BY <1>1, <2>1, AccountsAssumption
  <2> QED
    BY <1>3, <2>1, <2>2 DEF SomeAdministrator, IsActiveAdmin
<1>8. \A c \in Callers : CallSound(call[c])
  BY <1>5 DEF Idle, CallSound, CredentialsRead, DirectoryRead, AdministrationRead, AnotherIsThere,
        MayRemove
<1>9. Idle \in Calls
  BY IdleIsACall
<1> QED
  BY <1>4, <1>5, <1>6, <1>7, <1>8, <1>9 DEF AccountsInv, NoToken

(***************************************************************************)
(* A step that changes no account.                                         *)
(***************************************************************************)
LEMMA AccountsKept ==
    ASSUME AccountsInv, account' = account, crossed' = crossed,
           token' \in [Users -> Nat \cup {NoToken}],
           \A u \in Users : token'[u] = token[u] \/ (token'[u] = NoToken /\ u \notin revoked'),
           revoked' \subseteq revoked, now' \in Nat,
           wrongs' \in [Users -> Nat], \A u \in Users : wrongs[u] <= wrongs'[u],
           call' \in [Callers -> Calls],
           \A c \in Callers : CallSound(call[c])'
    PROVE  AccountsInv'
<1>1. ASSUME NEW u \in Users
      PROVE  RowSound(u)'
  <2>1. RowSound(u) /\ account'[u] = account[u] /\ account[u] \in UserRows
    BY DEF AccountsInv
  <2>2. wrongs[u] \in Nat /\ wrongs'[u] \in Nat /\ wrongs[u] <= wrongs'[u]
    BY DEF AccountsInv
  <2>3. token[u] \in Int /\ token'[u] \in Int /\ NoToken < 0
    BY DEF AccountsInv, NoToken
  <2>4. token'[u] = token[u] \/ (token'[u] = NoToken /\ u \notin revoked')
    OBVIOUS
  <2>5. u \in revoked' => u \in revoked
    OBVIOUS
  <2>6. MaxLoginAttempts \in Nat /\ account[u].version \in Nat /\ account[u].failed \in Nat
    BY <2>1, AccountsAssumption DEF UserRows
  <2> QED
    BY <2>1, <2>2, <2>3, <2>4, <2>5, <2>6 DEF RowSound
<1>2. SomeAdministrator'
  BY DEF AccountsInv, SomeAdministrator, IsActiveAdmin
<1> QED
  BY <1>1, <1>2 DEF AccountsInv

\* A call's facts depend on the accounts and on the passwords typed, and more
\* typed passwords take nothing away.
LEMMA CallKept ==
    ASSUME AccountsInv, NEW k \in Calls, CallSound(k), account' = account, crossed' = crossed,
           wrongs' \in [Users -> Nat], \A u \in Users : wrongs[u] <= wrongs'[u]
    PROVE  /\ k.op # "none" => k.target \in Users
           /\ CredentialsRead(k)' /\ DirectoryRead(k)' /\ AdministrationRead(k)'
           /\ AnotherIsThere(k)'
<1>1. k.op # "none" => k.target \in Users
  BY DEF CallSound
<1>2. CredentialsRead(k)'
  <2> SUFFICES ASSUME k.op = "verifyCredentials"
               PROVE  CredentialsRead(k)'
    BY DEF CredentialsRead
  <2>1. CredentialsRead(k) /\ k.target \in Users
    BY DEF CallSound
  <2>2. wrongs[k.target] \in Nat /\ wrongs'[k.target] \in Nat /\ wrongs[k.target] <= wrongs'[k.target]
    BY <2>1 DEF AccountsInv
  <2>3. MaxLoginAttempts \in Nat /\ k.row.failed \in Nat
    BY AccountsAssumption DEF Calls, UserRows
  <2> QED
    BY <2>1, <2>2, <2>3 DEF CredentialsRead
<1>3. DirectoryRead(k)' /\ AdministrationRead(k)'
  BY DEF CallSound, DirectoryRead, AdministrationRead
<1>4. AnotherIsThere(k)'
  BY DEF CallSound, AnotherIsThere, MayRemove, OtherAdmins, IsActiveAdmin
<1> QED
  BY <1>1, <1>2, <1>3, <1>4

LEMMA NothingAsked == CallSound(Idle)
BY DEF Idle, CallSound, CredentialsRead, DirectoryRead, AdministrationRead, AnotherIsThere, MayRemove

(***************************************************************************)
(* A step after which one call knows k, and no account has changed.        *)
(***************************************************************************)
LEMMA CallStep ==
    ASSUME AccountsInv, NEW c \in Callers, NEW k \in Calls, CallSound(k)',
           call' = [call EXCEPT ![c] = k], account' = account, token' = token,
           revoked' = revoked, crossed' = crossed, now' = now,
           wrongs' \in [Users -> Nat], \A u \in Users : wrongs[u] <= wrongs'[u]
    PROVE  AccountsInv'
<1>1. ASSUME NEW d \in Callers
      PROVE  CallSound(call[d])'
  <2>1. CASE d = c
    <3>1. call'[d] = k
      BY <2>1 DEF AccountsInv
    <3> QED
      BY <3>1 DEF CallSound, CredentialsRead, DirectoryRead, AdministrationRead, AnotherIsThere,
            MayRemove, OtherAdmins, IsActiveAdmin
  <2>2. CASE d # c
    <3>1. PICK j \in Calls : j = call[d]
      BY DEF AccountsInv
    <3>2. call'[d] = j /\ CallSound(j)
      BY <2>2, <3>1 DEF AccountsInv
    <3>3. /\ j.op # "none" => j.target \in Users
          /\ CredentialsRead(j)' /\ DirectoryRead(j)' /\ AdministrationRead(j)' /\ AnotherIsThere(j)'
      BY <3>2, CallKept
    <3> QED
      BY <3>2, <3>3 DEF CallSound, CredentialsRead, DirectoryRead, AdministrationRead,
            AnotherIsThere, MayRemove, OtherAdmins, IsActiveAdmin
  <2> QED
    BY <2>1, <2>2
<1>2. call' \in [Callers -> Calls]
  BY DEF AccountsInv
<1> QED
  BY <1>1, <1>2, AccountsKept DEF AccountsInv

LEMMA EndsStep ==
    ASSUME AccountsInv, NEW c \in Callers, Ends(c), now' = now
    PROVE  AccountsInv'
<1>1. /\ call' = [call EXCEPT ![c] = Idle] /\ account' = account /\ token' = token
      /\ wrongs' = wrongs /\ revoked' = revoked /\ crossed' = crossed
  BY DEF Ends
<1>2. \A u \in Users : wrongs[u] <= wrongs'[u]
  BY <1>1 DEF AccountsInv
<1>3. PICK k \in Calls : k = Idle
  BY IdleIsACall
<1>4. CallSound(k)'
  BY <1>3 DEF Idle, CallSound, CredentialsRead, DirectoryRead, AdministrationRead, AnotherIsThere,
        MayRemove
<1> QED
  BY <1>1, <1>2, <1>3, <1>4, CallStep DEF AccountsInv

LEMMA SessionStep ==
    ASSUME AccountsInv, NEW u \in Users, token' = [token EXCEPT ![u] = NoToken],
           revoked' = revoked \ {u}, UNCHANGED <<account, call, now, wrongs, crossed>>
    PROVE  AccountsInv'
<1>1. \A v \in Users : token'[v] = token[v] \/ (token'[v] = NoToken /\ v \notin revoked')
  BY DEF AccountsInv
<1>2. token' \in [Users -> Nat \cup {NoToken}]
  BY DEF AccountsInv
<1>3. \A v \in Users : wrongs[v] <= wrongs'[v]
  BY DEF AccountsInv
<1>4. \A d \in Callers : CallSound(call[d])'
  BY DEF AccountsInv, CallSound, CredentialsRead, DirectoryRead, AdministrationRead,
        AnotherIsThere, MayRemove, OtherAdmins, IsActiveAdmin
<1> QED
  BY <1>1, <1>2, <1>3, <1>4, AccountsKept DEF AccountsInv

LEMMA TimeStep == ASSUME AccountsInv, PassTime PROVE AccountsInv'
<1>1. \A d \in Callers : CallSound(call[d])'
  BY DEF AccountsInv, CallSound, CredentialsRead, DirectoryRead, AdministrationRead,
        AnotherIsThere, MayRemove, OtherAdmins, IsActiveAdmin, PassTime
<1>2. \A v \in Users : wrongs[v] <= wrongs'[v]
  BY DEF AccountsInv, PassTime
<1> QED
  BY <1>1, <1>2, AccountsKept DEF AccountsInv, PassTime

(***************************************************************************)
(* Steps in which a call asks or reads.                                    *)
(***************************************************************************)
LEMMA AskStep ==
    ASSUME AccountsInv, NEW c \in Callers, NEW actor \in Users, NEW u \in Users,
           NEW op, NEW arg, AskAdmin(c, actor, op, u, arg),
           \/ op = "setUserRole" /\ arg \in UserRoles
           \/ op = "setUserStatus" /\ arg \in UserStatuses
           \/ op = "unlockUser" /\ arg = "none"
    PROVE  AccountsInv'
<1>1. PICK k : k = [Idle EXCEPT !.op = op, !.at = "asked", !.target = u, !.arg = arg]
  OBVIOUS
<1>2. /\ k.op = op /\ k.at = "asked" /\ k.target = u /\ k.arg = arg
  BY <1>1 DEF Idle
<1>3. k \in Calls
  BY <1>1, IdleIsACall DEF Calls, Args, AdminOps, UserRoles, UserStatuses
<1>4. AnotherIsThere(k)'
  <2> SUFFICES ASSUME MayRemove(k)
               PROVE  OtherAdmins(u)' # {}
    BY <1>2 DEF AnotherIsThere, MayRemove
  <2>1. actor # u
    BY <1>2 DEF AskAdmin, MayRemove
  <2>2. IsActiveAdmin(account[actor]) /\ account' = account
    BY DEF AskAdmin, MayManageUsers, SignedIn, TokenHolds, IsActiveAdmin
  <2> QED
    BY <2>1, <2>2 DEF OtherAdmins, IsActiveAdmin
<1>5. CallSound(k)'
  BY <1>2, <1>4 DEF CallSound, CredentialsRead, DirectoryRead, AdministrationRead
<1>6. call' = [call EXCEPT ![c] = k] /\ wrongs' = wrongs
  BY <1>1 DEF AskAdmin
<1>7. \A v \in Users : wrongs[v] <= wrongs'[v]
  BY <1>6 DEF AccountsInv
<1> QED
  BY <1>3, <1>5, <1>6, <1>7, CallStep DEF AskAdmin, AccountsInv

LEMMA RoleReadStep ==
    ASSUME AccountsInv, NEW c \in Callers, ReadForRole(c)
    PROVE  AccountsInv'
<1>1. CASE Ends(c)
  BY <1>1, EndsStep DEF ReadForRole
<1>2. CASE ~Ends(c)
  <2>1. PICK j \in Calls : j = call[c]
    BY DEF AccountsInv
  <2>2. PICK k : k = [j EXCEPT !.at = "read"]
    OBVIOUS
  <2>3. /\ account[j.target].status # "NONE" /\ j.op = "setUserRole"
        /\ call' = [call EXCEPT ![c] = k] /\ account' = account /\ token' = token
        /\ wrongs' = wrongs /\ revoked' = revoked /\ crossed' = crossed /\ now' = now
    BY <1>2, <2>1, <2>2 DEF ReadForRole
  <2>4. /\ k.op = j.op /\ k.target = j.target /\ k.arg = j.arg /\ k.missed = j.missed
        /\ k.mapped = j.mapped /\ k \in Calls
    BY <2>2 DEF Calls
  <2>5. CallSound(j)
    BY <2>1 DEF AccountsInv
  <2>6. CallSound(k)'
    BY <2>3, <2>4, <2>5 DEF CallSound, CredentialsRead, DirectoryRead, AdministrationRead,
          AnotherIsThere, MayRemove, OtherAdmins, IsActiveAdmin
  <2>7. \A v \in Users : wrongs[v] <= wrongs'[v]
    BY <2>3 DEF AccountsInv
  <2> QED
    BY <2>3, <2>4, <2>6, <2>7, CallStep DEF AccountsInv
<1> QED
  BY <1>1, <1>2

LEMMA CredentialsReadStep ==
    ASSUME AccountsInv, NEW c \in Callers, NEW u \in Users, NEW m \in {"right", "wrong"},
           ReadForCredentials(c, u, m)
    PROVE  AccountsInv'
<1>1. account[u] \in UserRows /\ RowSound(u) /\ u \in LocalUsers /\ wrongs[u] \in Nat
  BY DEF AccountsInv, ReadForCredentials, HasLocalPassword
<1>2. PICK r : r = IF m = "wrong"
                   THEN [NoAccount EXCEPT !.failed = account[u].failed,
                                          !.lockedUntil = account[u].lockedUntil]
                   ELSE [account[u] EXCEPT !.failed = 0, !.role = DefaultRole]
  OBVIOUS
<1>3. r \in UserRows
  BY <1>1, <1>2, IdleIsACall, AccountsAssumption DEF UserRows
<1>4. /\ m = "wrong" => r.failed = account[u].failed /\ r.lockedUntil = account[u].lockedUntil
      /\ m = "right" => r.version = account[u].version
  BY <1>1, <1>2, IdleIsACall DEF UserRows
<1>5. PICK k : k = [Idle EXCEPT !.op = "verifyCredentials", !.at = "read", !.target = u,
                                !.arg = m, !.asOf = now, !.row = r]
  OBVIOUS
<1>6. /\ k.op = "verifyCredentials" /\ k.target = u /\ k.arg = m /\ k.row = r /\ k.missed = {}
      /\ k \in Calls
  BY <1>3, <1>5, IdleIsACall DEF Idle, Calls, Args, SignInOps, AccountsInv
<1>7. /\ call' = [call EXCEPT ![c] = k] /\ account' = account /\ token' = token
      /\ revoked' = revoked /\ crossed' = crossed /\ now' = now
      /\ wrongs' = [wrongs EXCEPT ![u] = IF m = "wrong" THEN @ + 1 ELSE @]
  BY <1>2, <1>5 DEF ReadForCredentials
<1>8. /\ wrongs' \in [Users -> Nat] /\ \A v \in Users : wrongs[v] <= wrongs'[v]
      /\ m = "wrong" => wrongs'[u] = wrongs[u] + 1
  BY <1>7 DEF AccountsInv
<1>9. CredentialsRead(k)'
  <2>1. r.version \in Nat /\ r.failed \in Nat /\ account[u].failed \in Nat
    BY <1>1, <1>3 DEF UserRows
  <2>2. wrongs'[u] \in Nat /\ wrongs[u] <= wrongs'[u] /\ MaxLoginAttempts \in Nat
    BY <1>8, AccountsAssumption
  <2> QED
    BY <1>1, <1>4, <1>6, <1>7, <1>8, <2>1, <2>2 DEF CredentialsRead, RowSound
<1>10. CallSound(k)'
  BY <1>6, <1>9 DEF CallSound, DirectoryRead, AdministrationRead, AnotherIsThere, MayRemove
<1> QED
  BY <1>6, <1>7, <1>8, <1>10, CallStep

LEMMA DirectoryReadStep ==
    ASSUME AccountsInv, NEW c \in Callers, NEW u \in Users, NEW groups \in SUBSET UserRoles,
           ReadForDirectory(c, u, groups)
    PROVE  AccountsInv'
<1> DEFINE role == RoleToApply(u, groups)
<1>1. account[u] \in UserRows /\ RowSound(u) /\ SomeAdministrator
  BY DEF AccountsInv
<1>2. PICK how : how = HowResolved(u)
  OBVIOUS
<1>3. /\ how \in {"linked", "claim", "provision"} /\ u \notin LocalUsers
      /\ how = "provision" => account[u].status = "NONE"
      /\ how # "provision" => account[u].status # "NONE"
  BY <1>1, <1>2 DEF ReadForDirectory, HowResolved, HasLocalPassword, RowSound
<1>4. role \in UserRoles \cup {"none"} /\ (how = "provision" => role # "none")
  <2>1. RoleFromGroups(groups) \in UserRoles \cup {"none"}
    BY DEF RoleFromGroups, UserRoles
  <2>2. DefaultRole \in UserRoles /\ "none" \notin UserRoles
    BY AccountsAssumption DEF UserRoles
  <2> QED
    BY <1>3, <2>1, <2>2 DEF RoleToApply
<1>5. how # "provision" /\ role # "none" => crossed \/ OtherAdmins(u) # {}
  <2> SUFFICES ASSUME how # "provision", role # "none", ~crossed
               PROVE  OtherAdmins(u) # {}
    OBVIOUS
  <2>1. PICK v \in Users : IsActiveAdmin(account[v])
    BY <1>1 DEF SomeAdministrator
  <2>2. CASE account[u].role = "ADMIN"
    BY <1>3, <2>2 DEF RoleToApply
  <2>3. CASE account[u].role # "ADMIN"
    BY <2>1, <2>3 DEF IsActiveAdmin, OtherAdmins
  <2> QED
    BY <2>2, <2>3
<1>6. PICK r : r = [NoAccount EXCEPT !.version = account[u].version]
  OBVIOUS
<1>7. r \in UserRows /\ r.version = account[u].version
  BY <1>1, <1>6, IdleIsACall DEF UserRows
<1>8. PICK to \in UserRoles \cup {"none"} : to = role
  BY <1>4
<1> HIDE DEF role
<1>9. PICK k : k = [Idle EXCEPT !.op = "signInWithDirectory", !.at = "read", !.target = u,
                                !.arg = how, !.row = r, !.mapped = to]
  OBVIOUS
<1>10. /\ k.op = "signInWithDirectory" /\ k.target = u /\ k.arg = how /\ k.row = r
       /\ k.mapped = to /\ k.missed = {} /\ k \in Calls
  BY <1>3, <1>7, <1>9, IdleIsACall DEF Idle, Calls, Args, SignInOps
<1>11. /\ call' = [call EXCEPT ![c] = k] /\ account' = account /\ token' = token
       /\ revoked' = revoked /\ crossed' = crossed /\ now' = now /\ wrongs' = wrongs
  BY <1>2, <1>6, <1>8, <1>9 DEF ReadForDirectory, role
<1>12. DirectoryRead(k)'
  BY <1>1, <1>3, <1>4, <1>7, <1>8, <1>10, <1>11 DEF DirectoryRead, RowSound, UserRows
<1>13. CallSound(k)'
  BY <1>3, <1>5, <1>8, <1>10, <1>11, <1>12 DEF CallSound, CredentialsRead, AdministrationRead,
        AnotherIsThere, MayRemove, OtherAdmins, IsActiveAdmin
<1>14. \A v \in Users : wrongs[v] <= wrongs'[v]
  BY <1>11 DEF AccountsInv
<1> QED
  BY <1>10, <1>11, <1>13, <1>14, CallStep DEF AccountsInv

(***************************************************************************)
(* Steps that write an account.  What the other calls rely on follows from *)
(* what every such write respects: the version never goes back and a       *)
(* change of role or status moves it on, a row never disappears, and an    *)
(* administrator is removed by a call that knows of another one, or that   *)
(* crossed a removal.                                                      *)
(***************************************************************************)
LEMMA Committed ==
    ASSUME AccountsInv, NEW c \in Callers, NEW u \in Users, NEW row \in UserRows,
           Commit(c, u, row), now' = now, wrongs' = wrongs,
           token' \in [Users -> Nat \cup {NoToken}], revoked' \subseteq Users,
           \A v \in Users \ {u} : token'[v] = token[v] /\ (v \in revoked' => v \in revoked),
           RowSound(u)', row.status # "NONE",
           account[u].version <= row.version,
           account[u].status # "NONE"
             /\ (row.role # account[u].role \/ row.status # account[u].status)
               => account[u].version < row.version,
           IsActiveAdmin(account[u]) /\ ~IsActiveAdmin(row)
             /\ "administrators" \notin call[c].missed => crossed \/ OtherAdmins(u) # {}
    PROVE  AccountsInv'
<1> DEFINE changed == row.role # account[u].role \/ row.status # account[u].status
           removal == IsActiveAdmin(account[u]) /\ ~IsActiveAdmin(row)
<1>1. account \in [Users -> UserRows] /\ account' = [account EXCEPT ![u] = row]
  BY DEF AccountsInv, Commit
<1>2. account'[u] = row /\ \A v \in Users \ {u} : account'[v] = account[v]
  BY <1>1
<1>3. crossed' = (crossed \/ (removal /\ "administrators" \in call[c].missed))
  BY DEF Commit, Overtake
<1>4. ASSUME NEW d \in Callers
      PROVE  /\ call'[d] \in Calls
             /\ \/ call'[d] = Idle
                \/ /\ call'[d].op = call[d].op /\ call'[d].at = call[d].at
                   /\ call'[d].target = call[d].target /\ call'[d].arg = call[d].arg
                   /\ call'[d].row = call[d].row /\ call'[d].mapped = call[d].mapped
                   /\ "account" \in call'[d].missed =>
                        \/ "account" \in call[d].missed
                        \/ changed /\ call[d].target = u
                   /\ "administrators" \notin call'[d].missed =>
                        /\ "administrators" \notin call[d].missed
                        /\ removal => call[d].op \in {"verifyCredentials", "unlockUser"}
  <2>1. call[d] \in Calls
    BY DEF AccountsInv
  <2> DEFINE A == IF changed /\ call[d].target = u /\ call[d].op \in SignInOps
                  THEN {"account"} ELSE {}
             B == IF removal /\ call[d].op \notin {"verifyCredentials", "unlockUser"}
                  THEN {"administrators"} ELSE {}
  <2>2. call'[d] = Idle \/ call'[d] = [call[d] EXCEPT !.missed = @ \cup A \cup B]
    BY DEF Commit, Overtake
  <2>3. /\ A \subseteq {"account"} /\ B \subseteq {"administrators"}
        /\ "account" \in A => changed /\ call[d].target = u
        /\ "administrators" \notin B => (removal => call[d].op \in {"verifyCredentials", "unlockUser"})
    OBVIOUS
  <2> HIDE DEF A, B, changed, removal
  <2>4. CASE call'[d] = Idle
    BY <2>4, IdleIsACall
  <2>5. CASE call'[d] = [call[d] EXCEPT !.missed = @ \cup A \cup B]
    <3>1. call'[d] \in Calls /\ call'[d].missed = call[d].missed \cup A \cup B
      BY <2>1, <2>3, <2>5 DEF Calls
    <3> QED
      BY <2>1, <2>3, <2>5, <3>1 DEF Calls
  <2> QED
    BY <2>2, <2>4, <2>5
<1>5. call' \in [Callers -> Calls]
  <2>1. call' = [d \in Callers |-> call'[d]]
    BY DEF Commit, Overtake
  <2> QED
    BY <1>4, <2>1
<1> HIDE DEF removal, changed
<1>6. ASSUME NEW v \in Users
      PROVE  RowSound(v)'
  BY <1>2 DEF AccountsInv, RowSound
<1>7. SomeAdministrator'
  <2>1. CASE crossed'
    BY <2>1 DEF SomeAdministrator
  <2>2. CASE ~crossed'
    <3>1. ~crossed /\ ~(removal /\ "administrators" \in call[c].missed)
      BY <1>3, <2>2
    <3>2. PICK v \in Users : IsActiveAdmin(account[v])
      BY <3>1 DEF AccountsInv, SomeAdministrator
    <3>3. CASE removal
      <4>1. OtherAdmins(u) # {}
        BY <3>1, <3>3 DEF removal
      <4> QED
        BY <1>2, <4>1 DEF OtherAdmins, IsActiveAdmin, SomeAdministrator
    <3>4. CASE ~removal
      BY <1>2, <3>2, <3>4 DEF removal, IsActiveAdmin, SomeAdministrator
    <3> QED
      BY <3>3, <3>4
  <2> QED
    BY <2>1, <2>2
<1>8. ASSUME NEW d \in Callers, call'[d] # Idle
      PROVE  CallSound(call[d])'
  <2>1. PICK j \in Calls : j = call[d]
    BY DEF AccountsInv
  <2>2. PICK k \in Calls : k = call'[d]
    BY <1>4
  <2>3. /\ k.op = j.op /\ k.at = j.at /\ k.target = j.target /\ k.arg = j.arg /\ k.row = j.row
        /\ k.mapped = j.mapped
        /\ "account" \in k.missed => "account" \in j.missed \/ (changed /\ j.target = u)
        /\ "administrators" \notin k.missed =>
             /\ "administrators" \notin j.missed
             /\ removal => j.op \in {"verifyCredentials", "unlockUser"}
    BY <1>4, <1>8, <2>1, <2>2
  <2>4. CallSound(j)
    BY <2>1 DEF AccountsInv
  <2>5. j.op # "none" =>
          /\ j.target \in Users
          /\ account[j.target].status # "NONE" => account'[j.target].status # "NONE"
          /\ account[j.target].version <= account'[j.target].version
          /\ "account" \in k.missed /\ account[j.target].status # "NONE" =>
               \/ "account" \in j.missed
               \/ account[j.target].version < account'[j.target].version
          /\ account[j.target].version \in Nat /\ account'[j.target].version \in Nat
          /\ j.row.version \in Nat
          /\ "account" \in k.missed =>
               "account" \in j.missed \/ account'[j.target].status # "NONE"
    <3> SUFFICES ASSUME j.op # "none"
                 PROVE  <2>5!2
      OBVIOUS
    <3>1. j.target \in Users /\ j.row.version \in Nat
      BY <2>4 DEF CallSound, Calls, UserRows
    <3>2. account[j.target] \in UserRows /\ account'[j.target] \in UserRows
      BY <1>1, <3>1
    <3> QED
      BY <1>2, <2>3, <3>1, <3>2 DEF UserRows, changed
  <2>6. CredentialsRead(k)'
    <3>1. j.target \in LocalUsers /\ j.target \in Users => account[j.target].status # "NONE"
      BY DEF AccountsInv, RowSound
    <3> QED
      BY <2>3, <2>4, <2>5, <3>1 DEF CallSound, CredentialsRead
  <2>7. DirectoryRead(k)'
    BY <2>3, <2>4, <2>5 DEF CallSound, DirectoryRead
  <2>8. AdministrationRead(k)'
    BY <2>3, <2>4, <2>5 DEF CallSound, AdministrationRead
  <2>9. AnotherIsThere(k)'
    <3> SUFFICES ASSUME MayRemove(k), "administrators" \notin k.missed
                 PROVE  (crossed \/ OtherAdmins(k.target) # {})'
      BY DEF AnotherIsThere, MayRemove
    <3>1. MayRemove(j) /\ ~removal
      BY <2>3 DEF MayRemove
    <3>2. crossed \/ OtherAdmins(j.target) # {}
      BY <2>3, <2>4, <3>1 DEF CallSound, AnotherIsThere
    <3>3. CASE crossed
      BY <1>3, <3>3
    <3>4. CASE OtherAdmins(j.target) # {}
      BY <1>2, <2>3, <3>1, <3>4 DEF OtherAdmins, IsActiveAdmin, removal
    <3> QED
      BY <3>2, <3>3, <3>4
  <2> QED
    BY <2>2, <2>3, <2>5, <2>6, <2>7, <2>8, <2>9 DEF CallSound, CredentialsRead, DirectoryRead,
          AdministrationRead, AnotherIsThere, MayRemove, OtherAdmins, IsActiveAdmin
<1>9. ASSUME NEW d \in Callers, call'[d] = Idle
      PROVE  CallSound(call[d])'
  BY <1>9 DEF Idle, CallSound, CredentialsRead, DirectoryRead, AdministrationRead,
        AnotherIsThere, MayRemove
<1>10. account' \in [Users -> UserRows] /\ crossed' \in BOOLEAN
  BY <1>1, <1>3 DEF AccountsInv
<1> QED
  BY <1>5, <1>6, <1>7, <1>8, <1>9, <1>10 DEF AccountsInv

LEMMA Rewritten ==
    ASSUME NEW row \in UserRows
    PROVE  /\ \A r \in UserRoles :
                LET moved == [row EXCEPT !.role = r, !.version = @ + 1]
                IN  /\ moved \in UserRows /\ moved.role = r /\ moved.version = row.version + 1
                    /\ moved.status = row.status /\ moved.failed = row.failed
                    /\ moved.lockedUntil = row.lockedUntil /\ moved.linked = row.linked
           /\ \A s \in UserStatuses :
                LET moved == [row EXCEPT !.status = s, !.version = @ + 1]
                IN  /\ moved \in UserRows /\ moved.role = row.role /\ moved.version = row.version + 1
                    /\ moved.status = s /\ moved.failed = row.failed
                    /\ moved.lockedUntil = row.lockedUntil /\ moved.linked = row.linked
<1> DEFINE next == row.version + 1
<1>1. next \in Nat
  BY DEF UserRows
<1> HIDE DEF next
<1>2. ASSUME NEW r \in UserRoles
      PROVE  LET moved == [row EXCEPT !.role = r, !.version = next]
             IN  /\ moved \in UserRows /\ moved.role = r /\ moved.version = next
                 /\ moved.status = row.status /\ moved.failed = row.failed
                 /\ moved.lockedUntil = row.lockedUntil /\ moved.linked = row.linked
  BY <1>1 DEF UserRows
<1>3. ASSUME NEW s \in UserStatuses
      PROVE  LET moved == [row EXCEPT !.status = s, !.version = next]
             IN  /\ moved \in UserRows /\ moved.role = row.role /\ moved.version = next
                 /\ moved.status = s /\ moved.failed = row.failed
                 /\ moved.lockedUntil = row.lockedUntil /\ moved.linked = row.linked
  BY <1>1 DEF UserRows
<1> QED
  BY <1>2, <1>3, Zenon DEF next

LEMMA SetUserRoleStep ==
    ASSUME AccountsInv, NEW c \in Callers, SetUserRole(c)
    PROVE  AccountsInv'
<1>1. PICK k \in Calls : k = call[c]
  BY DEF AccountsInv
<1>2. PICK u \in Users : u = k.target
  BY <1>1 DEF AccountsInv, CallSound, SetUserRole
<1>3. account[u] \in UserRows /\ RowSound(u) /\ account[u].status # "NONE" /\ k.arg \in UserRoles
  BY <1>1, <1>2 DEF AccountsInv, CallSound, AdministrationRead, SetUserRole
<1>4. PICK row : row = [account[u] EXCEPT !.role = k.arg, !.version = @ + 1]
  OBVIOUS
<1>5. /\ row \in UserRows /\ row.status = account[u].status /\ row.version = account[u].version + 1
      /\ row.failed = account[u].failed /\ row.lockedUntil = account[u].lockedUntil
      /\ row.linked = account[u].linked
  BY <1>3, <1>4, Rewritten
<1>6. Commit(c, u, row) /\ Revoking(u) /\ token' = token /\ now' = now /\ wrongs' = wrongs
  BY <1>1, <1>2, <1>4 DEF SetUserRole
<1>7. account'[u] = row /\ token[u] \in Int
  BY <1>6 DEF Commit, AccountsInv, NoToken
<1>8. RowSound(u)'
  BY <1>3, <1>5, <1>6, <1>7 DEF RowSound, UserRows
<1>9. "administrators" \notin call[c].missed => crossed \/ OtherAdmins(u) # {}
  BY <1>1, <1>2 DEF AccountsInv, CallSound, AnotherIsThere, MayRemove, SetUserRole
<1>10. revoked' \subseteq Users /\ \A v \in Users \ {u} : v \in revoked' => v \in revoked
  BY <1>6 DEF Revoking, AccountsInv
<1>11. account[u].version <= row.version /\ account[u].version < row.version
  BY <1>3, <1>5 DEF UserRows
<1> QED
  BY <1>3, <1>5, <1>6, <1>8, <1>9, <1>10, <1>11, Committed DEF AccountsInv

LEMMA SetUserStatusStep ==
    ASSUME AccountsInv, NEW c \in Callers, SetUserStatus(c)
    PROVE  AccountsInv'
<1>1. PICK k \in Calls : k = call[c]
  BY DEF AccountsInv
<1>2. PICK u \in Users : u = k.target
  BY <1>1 DEF AccountsInv, CallSound, SetUserStatus
<1>3. account[u] \in UserRows /\ RowSound(u) /\ k.arg \in UserStatuses
  BY <1>1, <1>2 DEF AccountsInv, CallSound, AdministrationRead, SetUserStatus
<1>4. PICK moved : moved = [account[u] EXCEPT !.status = k.arg, !.version = @ + 1]
  OBVIOUS
<1>5. /\ moved \in UserRows /\ moved.status = k.arg /\ moved.version = account[u].version + 1
      /\ moved.failed = account[u].failed /\ moved.lockedUntil = account[u].lockedUntil
      /\ moved.linked = account[u].linked
  BY <1>3, <1>4, Rewritten
<1>6. PICK row : row = IF k.arg = "ACTIVE" THEN [moved EXCEPT !.failed = 0, !.lockedUntil = 0]
                       ELSE moved
  OBVIOUS
<1>7. /\ row \in UserRows /\ row.status = k.arg /\ row.version = account[u].version + 1
      /\ row.linked = account[u].linked
      /\ row.failed = 0 \/ row.failed = account[u].failed
      /\ row.lockedUntil = 0 \/ row.lockedUntil = account[u].lockedUntil
  BY <1>5, <1>6 DEF UserRows
<1>8. /\ Commit(c, u, row) /\ Revoking(u) /\ token' = token /\ now' = now /\ wrongs' = wrongs
      /\ account[u].status # "NONE"
  BY <1>1, <1>2, <1>4, <1>6 DEF SetUserStatus
<1>9. account'[u] = row /\ token[u] \in Int /\ wrongs[u] \in Nat /\ row.status # "NONE"
  BY <1>3, <1>7, <1>8 DEF Commit, AccountsInv, NoToken, UserStatuses
<1>10. RowSound(u)'
  <2>1. row.failed <= wrongs[u] /\ (row.lockedUntil # 0 => wrongs[u] >= MaxLoginAttempts)
    BY <1>3, <1>7, <1>9 DEF RowSound, UserRows
  <2>2. row.linked => row.failed = 0 /\ row.lockedUntil = 0
    BY <1>3, <1>7 DEF RowSound
  <2> QED
    BY <1>3, <1>7, <1>8, <1>9, <2>1, <2>2 DEF RowSound, UserRows
<1>11. "administrators" \notin call[c].missed => crossed \/ OtherAdmins(u) # {}
  BY <1>1, <1>2 DEF AccountsInv, CallSound, AnotherIsThere, MayRemove, SetUserStatus
<1>12. revoked' \subseteq Users /\ \A v \in Users \ {u} : v \in revoked' => v \in revoked
  BY <1>8 DEF Revoking, AccountsInv
<1>13. account[u].version <= row.version /\ account[u].version < row.version
  BY <1>3, <1>7 DEF UserRows
<1> QED
  BY <1>7, <1>8, <1>9, <1>10, <1>11, <1>12, <1>13, Committed DEF AccountsInv

\* A step that only moves the counter and the lock of a call's target.
LEMMA CounterStep ==
    ASSUME AccountsInv, NEW c \in Callers, NEW u \in Users, NEW n \in Nat, NEW l \in Nat,
           Commit(c, u, [account[u] EXCEPT !.failed = n, !.lockedUntil = l]),
           account[u].status # "NONE", now' = now, wrongs' = wrongs,
           token' \in [Users -> Nat \cup {NoToken}], revoked' \subseteq Users,
           \A v \in Users \ {u} : token'[v] = token[v] /\ (v \in revoked' => v \in revoked),
           token'[u] <= account[u].version,
           u \in revoked' => token'[u] < account[u].version,
           n <= wrongs[u], l # 0 => wrongs[u] >= MaxLoginAttempts,
           account[u].linked => n = 0 /\ l = 0
    PROVE  AccountsInv'
<1>1. account[u] \in UserRows /\ RowSound(u)
  BY DEF AccountsInv
<1>2. PICK row : row = [account[u] EXCEPT !.failed = n, !.lockedUntil = l]
  OBVIOUS
<1>3. /\ row \in UserRows /\ row.status = account[u].status /\ row.version = account[u].version
      /\ row.role = account[u].role /\ row.linked = account[u].linked
      /\ row.failed = n /\ row.lockedUntil = l
  BY <1>1, <1>2 DEF UserRows
<1>4. Commit(c, u, row) /\ account'[u] = row
  BY <1>2 DEF Commit, AccountsInv
<1>5. RowSound(u)'
  BY <1>1, <1>3, <1>4 DEF RowSound
<1>6. account[u].version <= row.version /\ (IsActiveAdmin(account[u]) => IsActiveAdmin(row))
  BY <1>1, <1>3 DEF UserRows, IsActiveAdmin
<1> QED
  BY <1>3, <1>4, <1>5, <1>6, Committed

\* The same with both cleared.
LEMMA ClearedStep ==
    ASSUME AccountsInv, NEW c \in Callers, NEW u \in Users,
           Commit(c, u, [account[u] EXCEPT !.failed = 0, !.lockedUntil = 0]),
           account[u].status # "NONE", now' = now, wrongs' = wrongs,
           token' \in [Users -> Nat \cup {NoToken}], revoked' \subseteq Users,
           \A v \in Users \ {u} : token'[v] = token[v] /\ (v \in revoked' => v \in revoked),
           token'[u] <= account[u].version,
           u \in revoked' => token'[u] < account[u].version
    PROVE  AccountsInv'
<1>1. PICK none \in Nat : none = 0
  OBVIOUS
<1>2. Commit(c, u, [account[u] EXCEPT !.failed = none, !.lockedUntil = none])
  BY <1>1
<1>3. none <= wrongs[u]
  BY <1>1 DEF AccountsInv
<1> QED
  BY <1>1, <1>2, <1>3, CounterStep

LEMMA UnlockUserStep ==
    ASSUME AccountsInv, NEW c \in Callers, UnlockUser(c)
    PROVE  AccountsInv'
<1>1. PICK u \in Users : u = call[c].target
  BY DEF AccountsInv, CallSound, UnlockUser
<1>2. RowSound(u) /\ account[u] \in UserRows /\ account[u].status # "NONE" /\ wrongs[u] \in Nat
  BY <1>1 DEF AccountsInv, RowSound, UnlockUser
<1>3. /\ Commit(c, u, [account[u] EXCEPT !.failed = 0, !.lockedUntil = 0])
      /\ token' = token /\ revoked' = revoked /\ now' = now /\ wrongs' = wrongs
  BY <1>1 DEF UnlockUser
<1>4. /\ token' \in [Users -> Nat \cup {NoToken}] /\ revoked' \subseteq Users
      /\ \A v \in Users \ {u} : token'[v] = token[v] /\ (v \in revoked' => v \in revoked)
      /\ token'[u] <= account[u].version
      /\ u \in revoked' => token'[u] < account[u].version
  BY <1>2, <1>3 DEF AccountsInv, RowSound
<1> QED
  BY <1>2, <1>3, <1>4, ClearedStep

LEMMA WrongPasswordStep ==
    ASSUME AccountsInv, NEW c \in Callers, WrongPassword(c)
    PROVE  AccountsInv'
<1>1. PICK k \in Calls : k = call[c]
  BY DEF AccountsInv
<1>2. PICK u \in Users : u = k.target
  BY <1>1 DEF AccountsInv, CallSound, WrongPassword
<1>3. /\ u \in LocalUsers /\ k.row.failed + 1 <= wrongs[u]
      /\ k.row.lockedUntil # 0 => wrongs[u] >= MaxLoginAttempts
  BY <1>1, <1>2 DEF AccountsInv, CallSound, CredentialsRead, WrongPassword
<1>4. /\ RowSound(u) /\ account[u].status # "NONE" /\ ~account[u].linked
      /\ wrongs[u] \in Nat /\ MaxLoginAttempts \in Nat /\ LoginLockout \in Nat
      /\ k.asOf \in Nat /\ k.row.failed \in Nat /\ k.row.lockedUntil \in Nat
  BY <1>3, AccountsAssumption DEF AccountsInv, RowSound, Calls, UserRows
<1>5. PICK n \in Nat : n = k.row.failed + 1
  BY <1>4
<1>6. PICK l \in Nat : l = IF n >= MaxLoginAttempts THEN k.asOf + LoginLockout
                           ELSE k.row.lockedUntil
  BY <1>4
<1>7. n <= wrongs[u] /\ (l # 0 => wrongs[u] >= MaxLoginAttempts)
  BY <1>3, <1>4, <1>5, <1>6
<1>8. /\ Commit(c, u, [account[u] EXCEPT !.failed = n, !.lockedUntil = l])
      /\ token' = token /\ revoked' = revoked /\ now' = now /\ wrongs' = wrongs
  BY <1>1, <1>2, <1>5, <1>6 DEF WrongPassword
<1>9. /\ token' \in [Users -> Nat \cup {NoToken}] /\ revoked' \subseteq Users
      /\ \A v \in Users \ {u} : token'[v] = token[v] /\ (v \in revoked' => v \in revoked)
      /\ token'[u] <= account[u].version
      /\ u \in revoked' => token'[u] < account[u].version
  BY <1>4, <1>8 DEF AccountsInv, RowSound
<1> QED
  BY <1>4, <1>7, <1>8, <1>9, CounterStep

LEMMA RightPasswordStep ==
    ASSUME AccountsInv, NEW c \in Callers, RightPassword(c)
    PROVE  AccountsInv'
<1>1. PICK k \in Calls : k = call[c]
  BY DEF AccountsInv
<1>2. PICK u \in Users : u = k.target
  BY <1>1 DEF AccountsInv, CallSound, RightPassword
<1>3. /\ u \in LocalUsers /\ k.row.version <= account[u].version /\ k.row.version \in Nat
      /\ "account" \in k.missed => k.row.version < account[u].version
  BY <1>1, <1>2 DEF AccountsInv, CallSound, CredentialsRead, RightPassword, Calls, UserRows
<1>4. RowSound(u) /\ account[u].status # "NONE" /\ wrongs[u] \in Nat /\ account[u] \in UserRows
  BY <1>3 DEF AccountsInv, RowSound
<1>5. CASE Ends(c)
  BY <1>5, EndsStep DEF RightPassword
<1>6. CASE ~Ends(c)
  <2>1. /\ Commit(c, u, [account[u] EXCEPT !.failed = 0, !.lockedUntil = 0])
        /\ IssueToken(u, k.row.version, "account" \in k.missed)
        /\ now' = now /\ wrongs' = wrongs
    BY <1>1, <1>2, <1>6 DEF RightPassword
  <2>2. /\ token' \in [Users -> Nat \cup {NoToken}] /\ token'[u] = k.row.version
        /\ revoked' \subseteq Users
        /\ \A v \in Users \ {u} : token'[v] = token[v] /\ (v \in revoked' => v \in revoked)
        /\ u \in revoked' => "account" \in k.missed
    BY <1>3, <2>1 DEF IssueToken, AccountsInv
  <2> QED
    BY <1>3, <1>4, <2>1, <2>2, ClearedStep
<1> QED
  BY <1>5, <1>6

LEMMA SignInWithDirectoryStep ==
    ASSUME AccountsInv, NEW c \in Callers, SignInWithDirectory(c)
    PROVE  AccountsInv'
<1>1. PICK k \in Calls : k = call[c]
  BY DEF AccountsInv
<1>2. PICK u \in Users : u = k.target
  BY <1>1 DEF AccountsInv, CallSound, SignInWithDirectory
<1>3. /\ DirectoryRead(k) /\ k.op = "signInWithDirectory" /\ k.row.version \in Nat
      /\ account[u] \in UserRows /\ RowSound(u) /\ wrongs[u] \in Nat
  BY <1>1, <1>2 DEF AccountsInv, CallSound, SignInWithDirectory, Calls, UserRows
<1>4. u \notin LocalUsers /\ k.mapped \in UserRoles \cup {"none"} /\ "none" \notin UserRoles
  BY <1>2, <1>3 DEF DirectoryRead, UserRoles
<1>5. PICK remapped \in BOOLEAN : remapped = (k.arg # "provision" /\ k.mapped # "none")
  OBVIOUS
<1>6. PICK base : base = [account[u] EXCEPT !.linked = TRUE, !.failed = 0, !.lockedUntil = 0]
  OBVIOUS
<1>7. /\ base \in UserRows /\ base.role = account[u].role /\ base.status = account[u].status
      /\ base.version = account[u].version /\ base.failed = 0 /\ base.lockedUntil = 0
  BY <1>3, <1>6 DEF UserRows
<1>8. PICK row : row = IF k.arg = "provision" THEN Provisioned(k.mapped)
                       ELSE IF remapped THEN [base EXCEPT !.role = k.mapped, !.version = @ + 1]
                       ELSE base
  OBVIOUS
<1>9. /\ Commit(c, u, row) /\ now' = now /\ wrongs' = wrongs
      /\ IssueToken(u, IF remapped THEN row.version ELSE k.row.version,
                       ~remapped /\ "account" \in k.missed)
      /\ k.arg = "provision" => account[u].status = "NONE"
  BY <1>1, <1>2, <1>5, <1>6, <1>8 DEF SignInWithDirectory
<1>10. /\ row \in UserRows /\ row.failed = 0 /\ row.lockedUntil = 0 /\ row.status # "NONE"
       /\ account[u].version <= row.version
       /\ k.arg # "provision" => account[u].status # "NONE" /\ row.status = account[u].status
       /\ remapped => row.version = account[u].version + 1
       /\ ~remapped /\ k.arg # "provision" =>
            row.role = account[u].role /\ row.version = account[u].version
       /\ ~remapped => k.row.version <= row.version
       /\ ~remapped /\ "account" \in k.missed => k.row.version < row.version
  <2>1. CASE k.arg = "provision"
    <3>1. row = Provisioned(k.mapped) /\ k.mapped \in UserRoles
      BY <1>3, <1>4, <1>8, <2>1 DEF DirectoryRead
    <3>2. /\ row \in UserRows /\ row.failed = 0 /\ row.lockedUntil = 0 /\ row.status = "ACTIVE"
          /\ row.version = 0
      <4>1. PICK to \in UserRoles : to = k.mapped
        BY <3>1
      <4>2. row = [NoAccount EXCEPT !.status = "ACTIVE", !.linked = TRUE, !.role = to]
        BY <3>1, <4>1 DEF Provisioned
      <4>3. NoAccount.failed = 0 /\ NoAccount.lockedUntil = 0 /\ NoAccount.version = 0
        BY DEF NoAccount
      <4> QED
        BY <4>2, <4>3, IdleIsACall DEF UserRows, UserStatuses
    <3>3. account[u].status = "NONE" /\ account[u].version = 0 /\ k.row.version = 0
          /\ "account" \notin k.missed /\ ~remapped
      BY <1>2, <1>3, <1>5, <1>9, <2>1 DEF DirectoryRead, RowSound
    <3> QED
      BY <2>1, <3>2, <3>3
  <2>2. CASE k.arg # "provision"
    <3>1. /\ account[u].status # "NONE" /\ k.row.version <= account[u].version
          /\ "account" \in k.missed => k.row.version < account[u].version
      BY <1>2, <1>3, <2>2 DEF DirectoryRead
    <3>2. CASE remapped
      <4>1. row = [base EXCEPT !.role = k.mapped, !.version = @ + 1] /\ k.mapped \in UserRoles
        BY <1>4, <1>5, <1>8, <2>2, <3>2
      <4>2. row \in UserRows /\ row.failed = 0 /\ row.lockedUntil = 0 /\ row.status = base.status
            /\ row.version = base.version + 1
        BY <1>7, <4>1, Rewritten
      <4> QED
        BY <1>3, <1>7, <2>2, <3>1, <3>2, <4>2 DEF UserRows
    <3>3. CASE ~remapped
      BY <1>3, <1>7, <1>8, <2>2, <3>1, <3>3 DEF UserRows
    <3> QED
      BY <3>2, <3>3
  <2> QED
    BY <2>1, <2>2
<1>11. /\ token' \in [Users -> Nat \cup {NoToken}]
       /\ token'[u] = IF remapped THEN row.version ELSE k.row.version
       /\ revoked' \subseteq Users
       /\ \A v \in Users \ {u} : token'[v] = token[v] /\ (v \in revoked' => v \in revoked)
       /\ u \in revoked' => ~remapped /\ "account" \in k.missed
  BY <1>3, <1>9, <1>10 DEF IssueToken, AccountsInv, UserRows
<1>12. account'[u] = row
  BY <1>9 DEF Commit, AccountsInv
<1>13. RowSound(u)'
  BY <1>3, <1>4, <1>9, <1>10, <1>11, <1>12 DEF RowSound, UserRows
<1>14. account[u].status # "NONE" /\ (row.role # account[u].role \/ row.status # account[u].status)
         => account[u].version < row.version
  BY <1>3, <1>9, <1>10 DEF UserRows
<1>15. IsActiveAdmin(account[u]) /\ ~IsActiveAdmin(row) /\ "administrators" \notin call[c].missed
         => crossed \/ OtherAdmins(u) # {}
  <2> SUFFICES ASSUME IsActiveAdmin(account[u]), ~IsActiveAdmin(row),
                      "administrators" \notin k.missed
               PROVE  crossed \/ OtherAdmins(u) # {}
    BY <1>1
  <2>1. k.arg # "provision" /\ remapped
    BY <1>9, <1>10 DEF IsActiveAdmin
  <2>2. MayRemove(k)
    BY <1>3, <1>5, <2>1 DEF MayRemove
  <2> QED
    BY <1>1, <1>2, <2>2 DEF AccountsInv, CallSound, AnotherIsThere
<1> QED
  BY <1>9, <1>10, <1>11, <1>13, <1>14, <1>15, Committed

(***************************************************************************)
(* Every step, and the four properties.                                    *)
(***************************************************************************)
LEMMA AccountsStep == AccountsInv /\ [AccountsNext]_accountVars => AccountsInv'
<1> SUFFICES ASSUME AccountsInv, [AccountsNext]_accountVars
             PROVE  AccountsInv'
  OBVIOUS
<1>1. CASE UNCHANGED accountVars
  BY <1>1 DEF AccountsInv, accountVars, CallSound, CredentialsRead, DirectoryRead,
        AdministrationRead, AnotherIsThere, MayRemove, OtherAdmins, IsActiveAdmin, RowSound,
        SomeAdministrator
<1>2. ASSUME NEW c \in Callers, Administer(c)
      PROVE  AccountsInv'
  <2>1. ASSUME NEW actor \in Users, NEW u \in Users, NEW r \in Grantable,
               AskAdmin(c, actor, "setUserRole", u, r)
        PROVE  AccountsInv'
    BY <2>1, AskStep, AccountsAssumption
  <2>2. ASSUME NEW actor \in Users, NEW u \in Users, NEW s \in Settable,
               AskAdmin(c, actor, "setUserStatus", u, s)
        PROVE  AccountsInv'
    BY <2>2, AskStep, AccountsAssumption
  <2>3. ASSUME NEW actor \in Users, NEW u \in Users, AskAdmin(c, actor, "unlockUser", u, "none")
        PROVE  AccountsInv'
    BY <2>3, AskStep
  <2>4. CASE ReadForRole(c)
    BY <2>4, RoleReadStep
  <2>5. CASE SetUserRole(c)
    BY <2>5, SetUserRoleStep
  <2>6. CASE SetUserStatus(c)
    BY <2>6, SetUserStatusStep
  <2>7. CASE UnlockUser(c)
    BY <2>7, UnlockUserStep
  <2>8. CASE NothingToAdminister(c)
    BY <2>8, EndsStep DEF NothingToAdminister
  <2> QED
    BY <1>2, <2>1, <2>2, <2>3, <2>4, <2>5, <2>6, <2>7, <2>8 DEF Administer
<1>3. ASSUME NEW c \in Callers, SignIn(c)
      PROVE  AccountsInv'
  <2>1. ASSUME NEW u \in Users, NEW m \in {"right", "wrong"}, ReadForCredentials(c, u, m)
        PROVE  AccountsInv'
    BY <2>1, CredentialsReadStep
  <2>2. ASSUME NEW u \in Users, NEW groups \in GroupRoles[u], ReadForDirectory(c, u, groups)
        PROVE  AccountsInv'
    <3>1. groups \in SUBSET UserRoles
      BY AccountsAssumption
    <3> QED
      BY <2>2, <3>1, DirectoryReadStep
  <2>3. CASE WrongPassword(c)
    BY <2>3, WrongPasswordStep
  <2>4. CASE RightPassword(c)
    BY <2>4, RightPasswordStep
  <2>5. CASE DirectoryRefused(c)
    BY <2>5, EndsStep DEF DirectoryRefused
  <2>6. CASE SignInWithDirectory(c)
    BY <2>6, SignInWithDirectoryStep
  <2> QED
    BY <1>3, <2>1, <2>2, <2>3, <2>4, <2>5, <2>6 DEF SignIn
<1>4. ASSUME NEW u \in Users, Revalidate(u) \/ SignOut(u)
      PROVE  AccountsInv'
  BY <1>4, SessionStep DEF Revalidate, SignOut
<1>5. CASE PassTime
  BY <1>5, TimeStep
<1> QED
  BY <1>1, <1>2, <1>3, <1>4, <1>5 DEF AccountsNext

LEMMA AccountsAreSound == AccountsSpec => []AccountsInv
BY AccountsBegin, AccountsStep, PTL DEF AccountsSpec

\* A cookie issued before an account's last change of role or status is never
\* accepted: its version is below the account's, and versions only grow
\* (sessionVersion, revalidateToken).
THEOREM RevokedStaysOut == AccountsSpec => []RevokedIsSignedOut
<1>1. AccountsInv => RevokedIsSignedOut
  BY DEF AccountsInv, RowSound, UserRows, RevokedIsSignedOut, SignedIn, TokenHolds, NoToken
<1> QED
  BY <1>1, AccountsAreSound, PTL

\* Unless two removals crossed, an active administrator is left, however many
\* people and calls there are (setUserRole, setUserStatus, refreshFromDirectory).
THEOREM AnAdministratorIsLeft == AccountsSpec => []SomeAdministrator
BY AccountsAreSound, PTL DEF AccountsInv

\* Lockouts are earned for every limit: what is on record was typed
\* (verifyCredentials).
THEOREM OnlyWrongPasswordsLock == AccountsSpec => []LockoutsAreEarned
<1>1. AccountsInv => LockoutsAreEarned
  BY DEF AccountsInv, RowSound, LockoutsAreEarned
<1> QED
  BY <1>1, AccountsAreSound, PTL

\* No account has both a local password and a directory identity (resolveAccount,
\* hasLocalPassword).
THEOREM LocalAccountsStayLocal == AccountsSpec => []BreakGlassStaysLocal
<1>1. AccountsInv => BreakGlassStaysLocal
  BY DEF AccountsInv, RowSound, BreakGlassStaysLocal
<1> QED
  BY <1>1, AccountsAreSound, PTL

-----------------------------------------------------------------------------
(* Counting *)

\* A set of numbers has a least one: what every induction here rests on.
LEMMA LeastNumber ==
    ASSUME NEW T, T \subseteq Nat, T # {}
    PROVE  \E x \in T : \A y \in T : x <= y
<1>1. PICK x \in T : \A y \in T : ~(<<y, x>> \in OpToRel(<, Nat))
  BY NatLessThanWellFounded, WFMin
<1>2. \A y \in T : ~(y < x)
  BY <1>1 DEF OpToRel
<1> QED
  BY <1>2

\* What is counted apart adds up.
LEMMA CountApart ==
    ASSUME NEW A, NEW B, IsFiniteSet(A), IsFiniteSet(B), A \cap B = {}
    PROVE  Cardinality(A \cup B) = Cardinality(A) + Cardinality(B)
<1>1. Cardinality(A \cup B) = Cardinality(A) + Cardinality(B) - Cardinality(A \cap B)
  BY FS_Union
<1>2. Cardinality(A \cap B) = 0
  BY FS_EmptySet
<1>3. Cardinality(A) \in Nat /\ Cardinality(B) \in Nat
  BY FS_CardinalityType
<1> QED
  BY <1>1, <1>2, <1>3

\* Whatever is chosen from the records can be counted.
LEMMA RecordsAreFinite ==
    ASSUME NEW S \in SUBSET Records
    PROVE  IsFiniteSet(S) /\ Cardinality(S) \in Nat
<1>1. IsFiniteSet(S)
  BY FS_Subset, ListsAssumption
<1> QED
  BY <1>1, FS_CardinalityType

\* Counts of different statuses add up to the count of all of them.
LEMMA HavingSplits ==
    ASSUME NEW R \in SUBSET Records, NEW s, NEW t, s \cap t = {}
    PROVE  /\ Having(R, s \cup t) = Having(R, s) + Having(R, t)
           /\ Having(R, s) \in Nat
<1> DEFINE of(u) == {r \in R : rows[r].state \in u}
<1>1. /\ of(s) \in SUBSET Records /\ of(t) \in SUBSET Records
      /\ of(s \cup t) = of(s) \cup of(t) /\ of(s) \cap of(t) = {}
  OBVIOUS
<1>2. Having(R, s \cup t) = Cardinality(of(s \cup t)) /\ Having(R, s) = Cardinality(of(s)) /\ Having(R, t) = Cardinality(of(t))
  BY DEF Having
<1> HIDE DEF of
<1>3. /\ IsFiniteSet(of(s)) /\ IsFiniteSet(of(t))
      /\ Cardinality(of(s)) \in Nat
  BY <1>1, RecordsAreFinite
<1>4. Cardinality(of(s) \cup of(t)) = Cardinality(of(s)) + Cardinality(of(t))
  BY <1>1, <1>3, CountApart
<1> QED
  BY <1>1, <1>2, <1>3, <1>4

LEMMA PresentAreRecords == Present \in SUBSET Records
BY DEF Present

\* No status, no record.
LEMMA HavingNone == Having(Present, {}) = 0
<1>1. {r \in Present : rows[r].state \in {}} = {}
  OBVIOUS
<1> QED
  BY <1>1, FS_EmptySet DEF Having

\* The fold of CountByStatus at work: f[s] adds up the counts of s.
AddedUp(f, s) ==
    IF s = {} THEN 0
    ELSE LET x == CHOOSE x \in s : TRUE IN Having(Present, {x}) + f[s \ {x}]

Sums(f, S) == f = [s \in SUBSET S |-> AddedUp(f, s)]

\* CountByStatus is that fold (MapThenSumSet of the community modules).
LEMMA SumIsFold ==
    ASSUME NEW S
    PROVE  CountByStatus(S) = (CHOOSE f : Sums(f, S))[S]
BY DEF CountByStatus, MapThenSumSet, MapThenFoldSet, Sums, AddedUp

\* There is such a fold: the counts themselves are one.
LEMMA SumExists == ASSUME NEW S PROVE \E f : Sums(f, S)
<1> DEFINE f == [s \in SUBSET S |-> Having(Present, s)]
<1>1. ASSUME NEW s \in SUBSET S PROVE Having(Present, s) = AddedUp(f, s)
  <2>1. CASE s = {}
    BY <2>1, HavingNone DEF AddedUp
  <2>2. CASE s # {}
    <3> DEFINE x == CHOOSE x \in s : TRUE
    <3>1. x \in s
      BY <2>2
    <3>2. {x} \cap (s \ {x}) = {} /\ {x} \cup (s \ {x}) = s /\ s \ {x} \in SUBSET S
      BY <3>1
    <3>3. Having(Present, s) = Having(Present, {x}) + Having(Present, s \ {x})
      <4> HIDE DEF x
      <4> QED
        BY <3>2, HavingSplits, PresentAreRecords
    <3>4. f[s \ {x}] = Having(Present, s \ {x})
      BY <3>2
    <3>5. AddedUp(f, s) = Having(Present, {x}) + f[s \ {x}]
      BY <2>2 DEF AddedUp
    <3> QED
      BY <3>3, <3>4, <3>5
  <2> QED
    BY <2>1, <2>2
<1>2. f = [s \in SUBSET S |-> AddedUp(f, s)]
  BY <1>1
<1> QED
  BY <1>2 DEF Sums

\* There is no other: look at the smallest set where one differs.
LEMMA SumIsUnique ==
    ASSUME NEW S, IsFiniteSet(S), NEW f, Sums(f, S), NEW u \in SUBSET S
    PROVE  f[u] = Having(Present, u)
<1> DEFINE Wrong == {s \in SUBSET S : f[s] # Having(Present, s)}
           T == {Cardinality(s) : s \in Wrong}
<1>1. SUFFICES ASSUME Wrong # {} PROVE FALSE
  OBVIOUS
<1>2. \A s \in SUBSET S : IsFiniteSet(s) /\ Cardinality(s) \in Nat
  BY FS_Subset, FS_CardinalityType
<1>3. T \subseteq Nat /\ T # {}
  BY <1>1, <1>2
<1>4. PICK least \in T : \A k \in T : least <= k
  <2> HIDE DEF T
  <2> QED
    BY <1>3, LeastNumber
<1>5. PICK s \in Wrong : Cardinality(s) = least
  BY <1>4
<1>6. f[s] = AddedUp(f, s)
  <2> DEFINE F(v) == AddedUp(f, v)
  <2>1. f = [v \in SUBSET S |-> F(v)]
    BY DEF Sums
  <2> HIDE DEF F
  <2>2. f[s] = F(s)
    BY <1>5, <2>1
  <2> QED
    BY <2>2 DEF F
<1>7. s # {}
  BY <1>5, <1>6, HavingNone DEF AddedUp
<1> DEFINE x == CHOOSE x \in s : TRUE
<1>8. x \in s
  BY <1>7
<1>9. f[s] = Having(Present, {x}) + f[s \ {x}]
  BY <1>6, <1>7 DEF AddedUp
<1> HIDE DEF x
<1>10. s \ {x} \in SUBSET S /\ Cardinality(s \ {x}) = Cardinality(s) - 1
  BY <1>2, <1>8, FS_RemoveElement
<1>11. s \ {x} \notin Wrong
  <2>1. Cardinality(s \ {x}) \in Nat /\ Cardinality(s) \in Nat
    BY <1>2, <1>10
  <2> QED
    BY <1>4, <1>5, <1>10, <2>1
<1>12. Having(Present, s) = Having(Present, {x}) + Having(Present, s \ {x})
  <2>1. {x} \cap (s \ {x}) = {} /\ {x} \cup (s \ {x}) = s
    BY <1>8
  <2> QED
    BY <2>1, HavingSplits, PresentAreRecords
<1> QED
  BY <1>5, <1>9, <1>10, <1>11, <1>12

\* Adding up one count for each status counts the records of all of them.
LEMMA CountedByStatus ==
    ASSUME NEW S, IsFiniteSet(S)
    PROVE  CountByStatus(S) = Having(Present, S)
<1>1. Sums(CHOOSE f : Sums(f, S), S)
  BY SumExists
<1> QED
  BY <1>1, SumIsFold, SumIsUnique

-----------------------------------------------------------------------------
(* What the tables are *)

ListsInv ==
    /\ kind \in Kinds
    /\ rows \in [Records -> Rows(kind)]
    /\ link \in [Accounts -> Profiles \cup {Unlinked}]

LEMMA ListsBegin == ListsInit => ListsInv
BY DEF ListsInit, ListsInv

LEMMA ListsInductive == ListsInv /\ [ListsNext]_listVars => ListsInv'
<1> SUFFICES ASSUME ListsInv, [ListsNext]_listVars PROVE ListsInv'
  OBVIOUS
<1>1. CASE UNCHANGED listVars
  BY <1>1 DEF ListsInv, listVars, Rows, States, Marks, Owners, Dates
<1>2. CASE UNCHANGED <<kind, rows, link>>
  BY <1>2 DEF ListsInv, Rows, States, Marks, Owners, Dates
<1>3. ASSUME NEW r \in Records, NEW row \in Rows(kind), Write(r, row) PROVE ListsInv'
  <2>1. kind' = kind /\ link' = link /\ rows' = [rows EXCEPT ![r] = row]
    BY <1>3 DEF Write
  <2>2. rows' \in [Records -> Rows(kind)]
    BY <2>1 DEF ListsInv
  <2>3. Rows(kind)' = Rows(kind)
    BY <2>1 DEF Rows, States, Marks, Owners, Dates
  <2> QED
    BY <2>1, <2>2, <2>3 DEF ListsInv
<1>4. ASSUME NEW a \in Accounts, NEW p \in Profiles \cup {Unlinked}, Relink(a, p) PROVE ListsInv'
  <2>1. kind' = kind /\ rows' = rows /\ link' = [link EXCEPT ![a] = p]
    BY <1>4 DEF Relink
  <2>2. Rows(kind)' = Rows(kind)
    BY <2>1 DEF Rows, States, Marks, Owners, Dates
  <2> QED
    BY <2>1, <2>2 DEF ListsInv
<1> QED
  BY <1>1, <1>2, <1>3, <1>4 DEF ListsNext, Open, ResolveActor, CountRows, ReadPage

-----------------------------------------------------------------------------
(* The doors *)

\* Each of the five doors says what Theirs says, of any profile: the three
\* forms of the same rule agree because everybody who reads at all reads all
\* bookings or his own.
LEMMA DoorsSayTheSame ==
    ASSUME kind = "bookings", NEW a \in Accounts, NEW r \in Records
    PROVE  LET p == link[a] IN
           /\ VisibilityFor(a, p, r) <=> Theirs(a, r)
           /\ CanReadBookingFiles(a, p, r) <=> Theirs(a, r)
           /\ MayReadDocument(a, p, r) <=> Theirs(a, r)
           /\ InReportScope(a, p, r) <=> Theirs(a, r)
           /\ OnDashboard(a, p, r) <=> Theirs(a, r)
<1>1. RoleOf[a] \in {"ADMIN", "ENGINEER", "EDITOR", "VIEWER"}
  BY ListsAssumption
<1>2. ReadsAll(a) \/ ReadsOwn(a)
  BY <1>1 DEF ReadsAll, ReadsOwn
<1> QED
  BY <1>2 DEF VisibilityFor, CanReadBookingFiles, MayReadDocument, InReportScope, OnDashboard, Theirs

\* A booking is behind all five doors or behind none (visibilityFor,
\* canReadBookingFiles, mayRead, scopeFor, buildDashboard).
THEOREM OneRuleBehindTheDoors == ListsSpec => []DoorsAgree
<1>1. DoorsAgree
  BY DoorsSayTheSame DEF DoorsAgree, Present
<1> QED
  BY <1>1, PTL

-----------------------------------------------------------------------------
(* The numbers on the tabs *)

\* A record that is there has the columns of its list.
LEMMA RowOfItsKind ==
    ASSUME ListsInv, NEW r \in Present
    PROVE  /\ r \in Records
           /\ rows[r] \in [state : States(kind), marks : SUBSET Marks(kind), owner : Owners(kind),
                       start : Starts(kind), date : Dates(kind)]
BY DEF ListsInv, Present, Rows

\* The bookings page: grouped counts and a where-clause.
LEMMA BookingTabs ==
    ASSUME ListsInv, kind = "bookings", NEW a \in Accounts, NEW p, NEW tab \in Tabs(kind)
    PROVE  TabNumber(tab, a, p) = Cardinality(Listed(tab, a, p))
<1> DEFINE scope == {r \in Present : VisibilityFor(a, p, r)}
<1>1. scope \in SUBSET Records
  BY DEF Present
<1>2. Listed(tab, a, p) = {r \in scope : BookingInTab(tab, rows[r])}
  BY DEF Listed
<1>3. TabNumber(tab, a, p) = CountBookingsByFilter(tab, a, p)
  BY DEF TabNumber
<1>4. \A r \in scope : rows[r].state \in States("bookings")
  BY RowOfItsKind
<1>5. CountBookingsByFilter(tab, a, p) =
        CASE tab = "all"               -> Having(scope, States("bookings"))
          [] tab = "draft"             -> Having(scope, {"DRAFT"})
          [] tab = "checked-out"       -> Having(scope, {"CHECKED_OUT"}) + Having(scope, {"OVERDUE"})
          [] tab = "return-inspection" -> Having(scope, {"RETURN_INSPECTION"})
          [] tab = "cancelled"         -> Having(scope, {"CANCELLED"})
          [] OTHER                     -> Cardinality({r \in scope : BookingInTab(tab, rows[r])})
  BY DEF CountBookingsByFilter
<1>6. Having(scope, {"CHECKED_OUT"}) + Having(scope, {"OVERDUE"}) = Having(scope, OutStatuses)
  <2>1. {"CHECKED_OUT"} \cap {"OVERDUE"} = {} /\ {"CHECKED_OUT"} \cup {"OVERDUE"} = OutStatuses
    BY DEF OutStatuses
  <2> HIDE DEF scope
  <2> QED
    BY <1>1, <2>1, HavingSplits
<1> HIDE DEF scope
<1>7. CASE tab = "all"
  <2>1. {r \in scope : rows[r].state \in States("bookings")} = {r \in scope : BookingInTab(tab, rows[r])}
    BY <1>4, <1>7 DEF BookingInTab
  <2> QED
    BY <1>2, <1>3, <1>5, <1>7, <2>1 DEF Having
<1>8. CASE tab \in {"draft", "return-inspection", "cancelled"}
  <2>1. \E s : CountBookingsByFilter(tab, a, p) = Having(scope, {s})
               /\ {r \in scope : rows[r].state \in {s}} = {r \in scope : BookingInTab(tab, rows[r])}
    BY <1>5, <1>8 DEF BookingInTab
  <2> QED
    BY <1>2, <1>3, <2>1 DEF Having
<1>9. CASE tab = "checked-out"
  <2>1. {r \in scope : rows[r].state \in OutStatuses} = {r \in scope : BookingInTab(tab, rows[r])}
    BY <1>9 DEF BookingInTab
  <2> QED
    BY <1>2, <1>3, <1>5, <1>6, <1>9, <2>1 DEF Having
<1>10. CASE tab \in {"today", "due-soon", "overdue"}
  BY <1>2, <1>3, <1>5, <1>10
<1> QED
  BY <1>7, <1>8, <1>9, <1>10 DEF Tabs

LEMMA StatusSetsAreFinite ==
    ASSUME NEW S, \/ S \subseteq States("kits") \/ S \subseteq States("assets")
    PROVE  IsFiniteSet(S)
<1> DEFINE all == {"AVAILABLE", "RESERVED", "CHECKED_OUT", "MAINTENANCE", "DAMAGED", "MISSING", "RETIRED"}
<1>1. S \in SUBSET all
  BY DEF States
<1>2. IsFiniteSet(all)
  <2>1. \A T, x : IsFiniteSet(T) => IsFiniteSet(T \cup {x})
    BY FS_AddElement
  <2>2. IsFiniteSet({} \cup {"AVAILABLE"} \cup {"RESERVED"} \cup {"CHECKED_OUT"} \cup {"MAINTENANCE"})
    BY <2>1, FS_EmptySet, Zenon
  <2>3. IsFiniteSet({} \cup {"AVAILABLE"} \cup {"RESERVED"} \cup {"CHECKED_OUT"} \cup {"MAINTENANCE"}
                      \cup {"DAMAGED"} \cup {"MISSING"} \cup {"RETIRED"})
    BY <2>1, <2>2, Zenon
  <2>4. all = {} \cup {"AVAILABLE"} \cup {"RESERVED"} \cup {"CHECKED_OUT"} \cup {"MAINTENANCE"}
               \cup {"DAMAGED"} \cup {"MISSING"} \cup {"RETIRED"}
    OBVIOUS
  <2> HIDE DEF all
  <2> QED
    BY <2>3, <2>4
<1> HIDE DEF all
<1> QED
  BY <1>1, <1>2, FS_Subset

\* The kit and equipment pages: one count for each status of the tab.
LEMMA StockTabs ==
    ASSUME ListsInv, kind \in {"kits", "assets"}, NEW a \in Accounts, NEW p, NEW tab \in Tabs(kind)
    PROVE  TabNumber(tab, a, p) = Cardinality(Listed(tab, a, p))
<1> DEFINE S == IF kind = "kits" THEN KitViewStatuses(tab) ELSE AssetViewStatuses(tab)
<1>1. TabNumber(tab, a, p) = CountByStatus(S)
  BY DEF TabNumber
<1>2. Listed(tab, a, p) = {r \in Present : rows[r].state \in S}
  BY DEF Listed
<1>3. S \subseteq States("kits") \/ S \subseteq States("assets")
  BY DEF KitViewStatuses, AssetViewStatuses, States
<1> HIDE DEF S
<1>4. IsFiniteSet(S)
  BY <1>3, StatusSetsAreFinite
<1>5. CountByStatus(S) = Having(Present, S)
  BY <1>4, CountedByStatus
<1> QED
  BY <1>1, <1>2, <1>5 DEF Having

\* The issues page.
LEMMA IssueTabs ==
    ASSUME ListsInv, kind = "issues", NEW a \in Accounts, NEW p, NEW tab \in Tabs(kind)
    PROVE  TabNumber(tab, a, p) = Cardinality(Listed(tab, a, p))
<1>1. Listed(tab, a, p) = {r \in Present : IssueInTab(tab, rows[r], a)}
  BY DEF Listed
<1>2. TabNumber(tab, a, p) = CountIssuesByFilter(tab, a)
  BY DEF TabNumber
<1>3. CountIssuesByFilter(tab, a) =
        CASE tab = "open"          -> Having(Present, {"OPEN"}) + Having(Present, {"UNDER_INVESTIGATION"})
          [] tab = "investigating" -> Having(Present, {"UNDER_INVESTIGATION"})
          [] tab = "resolved"      -> Having(Present, {"RESOLVED"})
          [] tab = "closed"        -> Having(Present, {"CLOSED"})
          [] OTHER                 -> Cardinality({r \in Present : IssueInTab(tab, rows[r], a)})
  BY DEF CountIssuesByFilter
<1>4. CASE tab = "open"
  <2>1. {"OPEN"} \cap {"UNDER_INVESTIGATION"} = {}
    OBVIOUS
  <2>2. Having(Present, {"OPEN"} \cup {"UNDER_INVESTIGATION"})
          = Having(Present, {"OPEN"}) + Having(Present, {"UNDER_INVESTIGATION"})
    BY <2>1, HavingSplits, PresentAreRecords
  <2>3. {r \in Present : rows[r].state \in {"OPEN"} \cup {"UNDER_INVESTIGATION"}}
          = {r \in Present : IssueInTab(tab, rows[r], a)}
    BY <1>4 DEF IssueInTab, OpenIssue
  <2> QED
    BY <1>1, <1>2, <1>3, <1>4, <2>2, <2>3 DEF Having
<1>5. CASE tab \in {"investigating", "resolved", "closed"}
  <2>1. \E s : CountIssuesByFilter(tab, a) = Having(Present, {s})
               /\ {r \in Present : rows[r].state \in {s}} = {r \in Present : IssueInTab(tab, rows[r], a)}
    BY <1>3, <1>5 DEF IssueInTab
  <2> QED
    BY <1>1, <1>2, <2>1 DEF Having
<1>6. CASE tab \notin {"open", "investigating", "resolved", "closed"}
  BY <1>1, <1>2, <1>3, <1>6
<1> QED
  BY <1>4, <1>5, <1>6

\* The editors page, grouped by two marks at once.
LEMMA EditorTabs ==
    ASSUME ListsInv, kind = "editors", NEW a \in Accounts, NEW p, NEW tab \in Tabs(kind)
    PROVE  TabNumber(tab, a, p) = Cardinality(Listed(tab, a, p))
<1> DEFINE marked(m) == {r \in Present : rows[r].marks = m}
<1>1. Listed(tab, a, p) = {r \in Present : EditorInTab(tab, rows[r])}
  BY DEF Listed
<1>2. TabNumber(tab, a, p) =
        CASE tab = "internal" -> Cardinality(marked({"active"})) + Cardinality(marked({}))
          [] tab = "external" -> Cardinality(marked({"external", "active"})) + Cardinality(marked({"external"}))
          [] tab = "active"   -> Cardinality(marked({"external", "active"})) + Cardinality(marked({"active"}))
          [] tab = "inactive" -> Cardinality(marked({"external"})) + Cardinality(marked({}))
          [] OTHER            -> Cardinality(Present)
  BY DEF TabNumber, CountEditorsByView
<1>3. \A r \in Present : rows[r].marks \in {{}, {"active"}, {"external"}, {"external", "active"}}
  <2>1. \A r \in Present : rows[r].marks \in SUBSET {"external", "active"}
    BY RowOfItsKind DEF Marks
  <2> QED
    BY <2>1
<1>4. ASSUME NEW m, NEW n, m # n
      PROVE  Cardinality(marked(m) \cup marked(n)) = Cardinality(marked(m)) + Cardinality(marked(n))
  <2>1. marked(m) \cap marked(n) = {} /\ marked(m) \in SUBSET Records /\ marked(n) \in SUBSET Records
    BY <1>4, PresentAreRecords
  <2> HIDE DEF marked
  <2>2. IsFiniteSet(marked(m)) /\ IsFiniteSet(marked(n))
    BY <2>1, RecordsAreFinite
  <2> QED
    BY <2>1, <2>2, CountApart
<1>5. CASE tab = "internal"
  <2>1. marked({"active"}) \cup marked({}) = {r \in Present : EditorInTab(tab, rows[r])}
    BY <1>3, <1>5 DEF EditorInTab
  <2>2. {"active"} # {}
    OBVIOUS
  <2> HIDE DEF marked
  <2> QED
    BY <1>1, <1>2, <1>4, <1>5, <2>1, <2>2
<1>6. CASE tab = "external"
  <2>1. marked({"external", "active"}) \cup marked({"external"}) = {r \in Present : EditorInTab(tab, rows[r])}
    BY <1>3, <1>6 DEF EditorInTab
  <2>2. {"external", "active"} # {"external"}
    OBVIOUS
  <2> HIDE DEF marked
  <2> QED
    BY <1>1, <1>2, <1>4, <1>6, <2>1, <2>2
<1>7. CASE tab = "active"
  <2>1. marked({"external", "active"}) \cup marked({"active"}) = {r \in Present : EditorInTab(tab, rows[r])}
    BY <1>3, <1>7 DEF EditorInTab
  <2>2. {"external", "active"} # {"active"}
    OBVIOUS
  <2> HIDE DEF marked
  <2> QED
    BY <1>1, <1>2, <1>4, <1>7, <2>1, <2>2
<1>8. CASE tab = "inactive"
  <2>1. marked({"external"}) \cup marked({}) = {r \in Present : EditorInTab(tab, rows[r])}
    BY <1>3, <1>8 DEF EditorInTab
  <2>2. {"external"} # {}
    OBVIOUS
  <2> HIDE DEF marked
  <2> QED
    BY <1>1, <1>2, <1>4, <1>8, <2>1, <2>2
<1>9. CASE tab \notin {"internal", "external", "active", "inactive"}
  <2>1. Present = {r \in Present : EditorInTab(tab, rows[r])}
    BY <1>9 DEF EditorInTab
  <2> HIDE DEF marked
  <2> QED
    BY <1>1, <1>2, <1>9, <2>1
<1> QED
  BY <1>5, <1>6, <1>7, <1>8, <1>9

\* A tab's number is the number of rows it lists, for whoever looks.
LEMMA TabsCount ==
    ASSUME ListsInv, NEW a \in Accounts, NEW p, NEW tab \in Tabs(kind)
    PROVE  TabNumber(tab, a, p) = Cardinality(Listed(tab, a, p))
<1>1. CASE kind \in {"bookings", "kits", "assets", "issues", "editors"}
  BY <1>1, BookingTabs, StockTabs, IssueTabs, EditorTabs
<1>2. CASE kind \notin {"bookings", "kits", "assets", "issues", "editors"}
  <2>1. CASE kind = "users"
    BY <2>1 DEF TabNumber, CountUsersByFilter, Listed
  <2>2. CASE kind # "users"
    <3>1. Listed(tab, a, p) = Present
      BY <1>2, <2>2 DEF Listed
    <3> QED
      BY <1>2, <2>2, <3>1 DEF TabNumber
  <2> QED
    BY <2>1, <2>2
<1> QED
  BY <1>1, <1>2

LEMMA TabsTell == ASSUME ListsInv PROVE TabsTellTheList
<1> SUFFICES ASSUME NEW a \in Accounts
             PROVE  /\ \A tab \in Tabs(kind) : TabNumber(tab, a, link[a]) = Cardinality(Listed(tab, a, link[a]))
                    /\ kind = "bookings" =>
                          \A r \in Listed("all", a, link[a]) :
                              /\ r \in Listed("overdue", a, link[a])
                                    <=> IsBookingOverdue(rows[r].state, rows[r].date, Now)
                              /\ r \in Listed("due-soon", a, link[a])
                                    <=> IsDueSoon(rows[r].state, rows[r].date, Now, DueSoonHours)
  BY DEF TabsTellTheList
<1>1. \A tab \in Tabs(kind) : TabNumber(tab, a, link[a]) = Cardinality(Listed(tab, a, link[a]))
  BY TabsCount
<1>2. ASSUME kind = "bookings", NEW r \in Listed("all", a, link[a])
      PROVE  /\ r \in Listed("overdue", a, link[a])
                    <=> IsBookingOverdue(rows[r].state, rows[r].date, Now)
             /\ r \in Listed("due-soon", a, link[a])
                    <=> IsDueSoon(rows[r].state, rows[r].date, Now, DueSoonHours)
  <2>1. r \in Present /\ VisibilityFor(a, link[a], r)
    BY <1>2 DEF Listed
  <2>2. rows[r].date \in Nat /\ Now \in Nat
    BY <1>2, <2>1, RowOfItsKind, ListsAssumption DEF Dates
  <2>3. r \in Listed("overdue", a, link[a]) <=> BookingInTab("overdue", rows[r])
    BY <1>2, <2>1 DEF Listed
  <2>4. r \in Listed("due-soon", a, link[a]) <=> BookingInTab("due-soon", rows[r])
    BY <1>2, <2>1 DEF Listed
  <2>5. BookingInTab("overdue", rows[r]) <=> IsBookingOverdue(rows[r].state, rows[r].date, Now)
    BY DEF BookingInTab, IsBookingOverdue
  <2>6. BookingInTab("due-soon", rows[r]) <=> IsDueSoon(rows[r].state, rows[r].date, Now, DueSoonHours)
    BY <2>2 DEF BookingInTab, IsDueSoon
  <2> QED
    BY <2>3, <2>4, <2>5, <2>6
<1> QED
  BY <1>1, <1>2

-----------------------------------------------------------------------------
(* The dashboard *)

LEMMA KitTabs ==
    ASSUME ListsInv, kind = "kits", NEW a, NEW p, NEW tab
    PROVE  TabNumber(tab, a, p) = Having(Present, KitViewStatuses(tab))
<1>1. TabNumber(tab, a, p) = CountByStatus(KitViewStatuses(tab))
  BY DEF TabNumber
<1>2. KitViewStatuses(tab) \subseteq States("kits")
  BY DEF KitViewStatuses, States
<1>3. IsFiniteSet(KitViewStatuses(tab))
  BY <1>2, StatusSetsAreFinite
<1> QED
  BY <1>1, <1>3, CountedByStatus

\* The strip of figures against the tabs of the kits page.
LEMMA KitFigures ==
    ASSUME ListsInv, kind = "kits", NEW a, NEW p
    PROVE  /\ KitFigure("available") = TabNumber("available", a, p)
           /\ KitFigure("reserved") = TabNumber("reserved", a, p)
           /\ KitFigure("checkedOut") = TabNumber("checked-out", a, p)
           /\ KitFigure("maintenance") + KitFigure("damaged") = TabNumber("maintenance", a, p)
           /\ KitFigure("total") = TabNumber("all", a, p) - TabNumber("retired", a, p)
<1>1. /\ KitFigure("available") = Having(Present, {"AVAILABLE"})
      /\ KitFigure("reserved") = Having(Present, {"RESERVED"})
      /\ KitFigure("checkedOut") = Having(Present, {"CHECKED_OUT"})
      /\ KitFigure("maintenance") = Having(Present, {"MAINTENANCE"})
      /\ KitFigure("damaged") = Having(Present, {"DAMAGED"})
  BY DEF KitFigure, CountKits
<1>2. /\ KitViewStatuses("available") = {"AVAILABLE"}
      /\ KitViewStatuses("reserved") = {"RESERVED"}
      /\ KitViewStatuses("checked-out") = {"CHECKED_OUT"}
      /\ KitViewStatuses("maintenance") = {"MAINTENANCE"} \cup {"DAMAGED"}
      /\ KitViewStatuses("retired") = {"RETIRED"}
      /\ KitViewStatuses("all") = States("kits")
  BY DEF KitViewStatuses
<1>3. Having(Present, {"MAINTENANCE"} \cup {"DAMAGED"})
        = Having(Present, {"MAINTENANCE"}) + Having(Present, {"DAMAGED"})
  <2>1. {"MAINTENANCE"} \cap {"DAMAGED"} = {}
    OBVIOUS
  <2> QED
    BY <2>1, HavingSplits, PresentAreRecords
<1> DEFINE live == {"AVAILABLE", "RESERVED", "CHECKED_OUT", "MAINTENANCE", "DAMAGED"}
<1>4. KitFigure("total") = CountByStatus(live)
  BY DEF KitFigure, CountKits, CountByStatus
<1>5. live \subseteq States("kits") /\ States("kits") = live \cup {"RETIRED"} /\ live \cap {"RETIRED"} = {}
  BY DEF States
<1> HIDE DEF live
<1>6. IsFiniteSet(live)
  BY <1>5, StatusSetsAreFinite
<1>7. CountByStatus(live) = Having(Present, live)
  BY <1>6, CountedByStatus
<1>8. /\ Having(Present, States("kits")) = Having(Present, live) + Having(Present, {"RETIRED"})
      /\ Having(Present, live) \in Nat
  BY <1>5, HavingSplits, PresentAreRecords
<1>9. \A s : Having(Present, s) \in Nat
  <2>1. ASSUME NEW s PROVE Having(Present, s) \in Nat
    <3>1. s \cap {} = {}
      OBVIOUS
    <3> QED
      BY <3>1, HavingSplits, PresentAreRecords
  <2> QED
    BY <2>1
<1>10. KitFigure("total") = TabNumber("all", a, p) - TabNumber("retired", a, p)
  <2>1. /\ TabNumber("all", a, p) = Having(Present, States("kits"))
        /\ TabNumber("retired", a, p) = Having(Present, {"RETIRED"})
    BY <1>2, KitTabs
  <2> QED
    BY <1>4, <1>7, <1>8, <1>9, <2>1
<1>11. KitFigure("maintenance") + KitFigure("damaged") = TabNumber("maintenance", a, p)
  BY <1>1, <1>2, <1>3, KitTabs
<1>12. /\ KitFigure("available") = TabNumber("available", a, p)
       /\ KitFigure("reserved") = TabNumber("reserved", a, p)
       /\ KitFigure("checkedOut") = TabNumber("checked-out", a, p)
  BY <1>1, <1>2, KitTabs
<1> QED
  BY <1>10, <1>11, <1>12

LEMMA FiguresTell == ASSUME ListsInv PROVE FiguresTellTheTabs
<1> SUFFICES ASSUME NEW a \in Accounts
             PROVE  LET p == link[a] IN
                    /\ kind = "kits" =>
                         /\ KitFigure("available") = TabNumber("available", a, p)
                         /\ KitFigure("reserved") = TabNumber("reserved", a, p)
                         /\ KitFigure("checkedOut") = TabNumber("checked-out", a, p)
                         /\ KitFigure("maintenance") + KitFigure("damaged") = TabNumber("maintenance", a, p)
                         /\ KitFigure("total") = TabNumber("all", a, p) - TabNumber("retired", a, p)
                    /\ kind = "assets" => CountAssetsInMaintenance = TabNumber("maintenance", a, p)
                    /\ kind = "issues" => CountOpenIssues = TabNumber("open", a, p)
                    /\ kind = "bookings" => CountOverdueBookings(a, p) = TabNumber("overdue", a, p)
  BY DEF FiguresTellTheTabs
<1>1. CASE kind = "kits"
  BY <1>1, KitFigures
<1>2. CASE kind = "assets"
  <2>1. TabNumber("maintenance", a, link[a]) = Cardinality(Listed("maintenance", a, link[a]))
    BY <1>2, TabsCount DEF Tabs
  <2>2. Listed("maintenance", a, link[a]) = {r \in Present : rows[r].state \in {"MAINTENANCE"}}
    BY <1>2 DEF Listed, AssetViewStatuses
  <2> QED
    BY <1>2, <2>1, <2>2 DEF CountAssetsInMaintenance, Having
<1>3. CASE kind = "issues"
  <2>1. TabNumber("open", a, link[a]) = Cardinality(Listed("open", a, link[a]))
    BY <1>3, TabsCount DEF Tabs
  <2>2. Listed("open", a, link[a]) = {r \in Present : OpenIssue(rows[r])}
    BY <1>3 DEF Listed, IssueInTab
  <2> QED
    BY <1>3, <2>1, <2>2 DEF CountOpenIssues
<1>4. CASE kind = "bookings"
  <2>1. TabNumber("overdue", a, link[a]) = Cardinality(Listed("overdue", a, link[a]))
    BY <1>4, TabsCount DEF Tabs
  <2>2. Listed("overdue", a, link[a])
          = {r \in Present : VisibilityFor(a, link[a], r) /\ BookingInTab("overdue", rows[r])}
    BY <1>4 DEF Listed
  <2> QED
    BY <1>4, <2>1, <2>2 DEF CountOverdueBookings
<1>5. CASE kind \notin {"kits", "assets", "issues", "bookings"}
  BY <1>5
<1> QED
  BY <1>1, <1>2, <1>3, <1>4, <1>5

\* A panel is empty only when there is nothing to show.
LEMMA FirstRowsOfSome ==
    ASSUME NEW panel, NEW S \in SUBSET Records, NEW shown \in SUBSET S, Shows(panel, S, shown)
    PROVE  shown = {} <=> S = {}
<1>1. Cardinality(S) \in Nat /\ IsFiniteSet(S) /\ IsFiniteSet(shown)
  BY RecordsAreFinite
<1>2. Cardinality(shown) = IF Cardinality(S) < PanelLimit THEN Cardinality(S) ELSE PanelLimit
  BY DEF Shows
<1>3. Cardinality(shown) = 0 <=> Cardinality(S) = 0
  BY <1>1, <1>2, SummariesAssumption
<1> QED
  BY <1>1, <1>3, FS_EmptySet

LEMMA PanelsShow == ASSUME ListsInv PROVE PanelsShowTheList
<1> DEFINE Panels == IF kind = "bookings" THEN {"overdue", "today", "history"}
                     ELSE IF kind = "issues" THEN {"issues"} ELSE {}
           All(panel) == CASE panel = "history" -> "all" [] panel = "issues" -> "open"
                           [] OTHER -> panel
<1> SUFFICES ASSUME NEW a \in Accounts, NEW panel \in Panels
             PROVE  LET S == PanelRows(panel, a, link[a]) IN
                    /\ S \subseteq Listed(All(panel), a, link[a])
                    /\ \A shown \in SUBSET S : Shows(panel, S, shown) => (shown = {} <=> S = {})
                    /\ kind = "issues" /\ "issues" \in QuickActionsFor(a) => S = Listed("open", a, link[a])
  BY DEF PanelsShowTheList
<1>1. PanelRows(panel, a, link[a]) \in SUBSET Records
  BY PresentAreRecords DEF PanelRows
<1>2. \A shown \in SUBSET PanelRows(panel, a, link[a]) :
        Shows(panel, PanelRows(panel, a, link[a]), shown) => (shown = {} <=> PanelRows(panel, a, link[a]) = {})
  BY <1>1, FirstRowsOfSome
<1>3. CASE kind = "bookings"
  <2>1. \A tab : Listed(tab, a, link[a]) = {r \in Present : VisibilityFor(a, link[a], r) /\ BookingInTab(tab, rows[r])}
    BY <1>3 DEF Listed
  <2>2. CASE panel \in {"overdue", "today"}
    <3>1. PanelRows(panel, a, link[a]) =
            {r \in Present : May(a, "booking.read") /\ VisibilityFor(a, link[a], r) /\ BookingInTab(panel, rows[r])}
      BY <2>2 DEF PanelRows
    <3> QED
      BY <1>2, <1>3, <2>1, <2>2, <3>1
  <2>3. CASE panel = "history"
    <3>1. PanelRows(panel, a, link[a]) =
            {r \in Present : ~May(a, "booking.read") /\ May(a, "booking.readOwn") /\ VisibilityFor(a, link[a], r)}
      BY <2>3 DEF PanelRows
    <3>2. Listed("all", a, link[a]) = {r \in Present : VisibilityFor(a, link[a], r)}
      BY <2>1 DEF BookingInTab
    <3> QED
      BY <1>2, <1>3, <2>3, <3>1, <3>2
  <2> QED
    BY <1>3, <2>2, <2>3
<1>4. CASE kind = "issues"
  <2>1. panel = "issues"
    BY <1>4
  <2>2. Listed("open", a, link[a]) = {r \in Present : OpenIssue(rows[r])}
    BY <1>4 DEF Listed, IssueInTab
  <2>3. PanelRows("issues", a, link[a]) = {r \in Present : May(a, "issue.read") /\ OpenIssue(rows[r])}
    BY DEF PanelRows
  <2>4. "issues" \in QuickActionsFor(a) => May(a, "issue.read")
    BY DEF QuickActionsFor
  <2> QED
    BY <1>2, <1>4, <2>1, <2>2, <2>3, <2>4
<1> QED
  BY <1>3, <1>4

-----------------------------------------------------------------------------
(* The reports *)

\* Whoever may run reports reads every booking.
LEMMA WhoRunsReportsReadsAll ==
    ASSUME NEW a \in Accounts, May(a, "report.read")
    PROVE  ReadsAll(a)
<1>1. RoleOf[a] \in {"ADMIN", "ENGINEER", "EDITOR", "VIEWER"}
  BY ListsAssumption
<1>2. RoleOf[a] # "EDITOR"
  BY DEF May, Granted
<1> QED
  BY <1>1, <1>2 DEF ReadsAll

\* How many pages there are: enough for every row, and no page is empty.
LEMMA PagesAreEnough ==
    ASSUME NEW total \in Nat
    PROVE  /\ PageCountFor(total) \in Nat \ {0}
           /\ total <= PageCountFor(total) * PageSize
           /\ total > 0 => (PageCountFor(total) - 1) * PageSize < total
           /\ total = 0 => PageCountFor(total) = 1
<1> DEFINE full == (total + PageSize - 1) \div PageSize
           rowsOf(n) == n * PageSize
<1>1. PageSize \in Nat \ {0}
  BY ListsAssumption
<1>2. full \in Int /\ rowsOf(full) <= total + PageSize - 1 /\ total + PageSize - 1 < rowsOf(full + 1)
  BY <1>1
<1>3. PageCountFor(total) = IF full < 1 THEN 1 ELSE full
  BY DEF PageCountFor
<1> HIDE DEF full
<1>4. /\ rowsOf(full) \in Int /\ rowsOf(1) = PageSize
      /\ rowsOf(full + 1) = rowsOf(full) + PageSize /\ rowsOf(full - 1) = rowsOf(full) - PageSize
  BY <1>1, <1>2
<1>5. (full < 1 => rowsOf(full) <= 0) /\ (full >= 1 => rowsOf(full) >= PageSize)
  BY <1>1, <1>2
<1>6. rowsOf(1 - 1) = 0
  BY <1>1
<1> HIDE DEF rowsOf
<1>7. total <= rowsOf(PageCountFor(total))
  BY <1>1, <1>2, <1>3, <1>4, <1>5
<1>8. total > 0 => rowsOf(PageCountFor(total) - 1) < total
  <2>1. CASE full < 1
    BY <1>3, <1>6, <2>1
  <2>2. CASE full >= 1
    BY <1>1, <1>2, <1>3, <1>4, <2>2
  <2> QED
    BY <1>2, <2>1, <2>2
<1>9. total = 0 => PageCountFor(total) = 1
  BY <1>1, <1>2, <1>3, <1>4, <1>5
<1> QED
  BY <1>2, <1>3, <1>7, <1>8, <1>9 DEF rowsOf

LEMMA LastPageIsNotEmpty ==
    ASSUME NEW total \in Nat, NEW asked \in Nat
    PROVE  LET at == Paginate(asked, total) IN
           /\ at.page \in 1 .. at.pages
           /\ total > 0 => at.skip < total
<1> DEFINE count == PageCountFor(total)
           page == IF asked < 1 THEN 1 ELSE IF asked > count THEN count ELSE asked
<1>1. PageSize \in Nat \ {0}
  BY ListsAssumption
<1>2. count \in Nat \ {0} /\ (total > 0 => (count - 1) * PageSize < total)
  BY PagesAreEnough
<1>3. /\ Paginate(asked, total).page = page /\ Paginate(asked, total).pages = count
      /\ Paginate(asked, total).skip = (page - 1) * PageSize
  BY DEF Paginate
<1> HIDE DEF count
<1>4. page \in 1 .. count
  BY <1>2
<1> HIDE DEF page
<1>5. (page - 1) * PageSize <= (count - 1) * PageSize
  BY <1>1, <1>2, <1>4
<1>6. (page - 1) * PageSize \in Int /\ (count - 1) * PageSize \in Int
  BY <1>1, <1>2, <1>4
<1> QED
  BY <1>2, <1>3, <1>4, <1>5, <1>6

\* The issues report with its status filter.
LEMMA IssueReport ==
    ASSUME ListsInv, kind = "issues", NEW a \in Accounts, NEW p
    PROVE  LET total(wanted) == Cardinality(ReportRows("issues", wanted, a, p)) IN
           /\ total(AnyStatus) = TabNumber("all", a, p)
           /\ total("UNDER_INVESTIGATION") = TabNumber("investigating", a, p)
           /\ total("OPEN") + total("UNDER_INVESTIGATION") = TabNumber("open", a, p)
<1>1. \A s \in {"OPEN", "UNDER_INVESTIGATION"} :
        ReportRows("issues", s, a, p) = {r \in Present : rows[r].state \in {s}}
  BY DEF ReportRows, AnyStatus
<1>2. ReportRows("issues", AnyStatus, a, p) = Listed("all", a, p)
  <2>1. ReportRows("issues", AnyStatus, a, p) = Present
    BY DEF ReportRows
  <2>2. Listed("all", a, p) = Present
    BY DEF Listed, IssueInTab
  <2> QED
    BY <2>1, <2>2
<1>3. TabNumber("all", a, p) = Cardinality(Listed("all", a, p))
  BY TabsCount DEF Tabs
<1>4. /\ TabNumber("open", a, p) = Having(Present, {"OPEN"}) + Having(Present, {"UNDER_INVESTIGATION"})
      /\ TabNumber("investigating", a, p) = Having(Present, {"UNDER_INVESTIGATION"})
  BY DEF TabNumber, CountIssuesByFilter
<1> QED
  BY <1>1, <1>2, <1>3, <1>4 DEF Having

\* The reports whose rows are those of one tab.
TabOf(report) ==
    CASE report \in {"bookingHistory", "kitUtilisation", "editorHistory",
                     "equipmentStatus", "issues"} -> "all"
      [] report = "checkedOut"     -> "checked-out"
      [] report = "overdue"        -> "overdue"
      [] report = "missingDamaged" -> "missing-damaged"

\* A report without a filter lists the rows of its tab.
LEMMA ReportIsATab ==
    ASSUME ListsInv, NEW a \in Accounts, NEW report \in DOMAIN Reports, ReportOf(report) = kind,
           MayRunReport(a, report)
    PROVE  /\ kind = "bookings" => ReadsAll(a)
           /\ TabOf(report) \in Tabs(kind)
           /\ ReportRows(report, AnyStatus, a, link[a]) = Listed(TabOf(report), a, link[a])
<1> DEFINE p == link[a]
<1>1. ReadsAll(a)
  BY WhoRunsReportsReadsAll DEF MayRunReport
<1>2. report \in {"checkedOut", "overdue", "bookingHistory", "kitUtilisation", "editorHistory",
                  "missingDamaged", "equipmentStatus", "issues"}
  BY DEF Reports
<1>3. \A r : InReportScope(a, p, r) /\ VisibilityFor(a, p, r)
  BY <1>1 DEF InReportScope, VisibilityFor
<1> HIDE DEF p
<1>4. CASE report \in {"checkedOut", "overdue", "bookingHistory"}
  <2>1. kind = "bookings"
    BY <1>4 DEF ReportOf
  <2>2. Listed(TabOf(report), a, p) = {r \in Present : BookingInTab(TabOf(report), rows[r])}
    BY <1>3, <2>1 DEF Listed
  <2>3. CASE report = "checkedOut"
    <3>1. ReportRows(report, AnyStatus, a, p) = {r \in Present : rows[r].state \in OutStatuses}
      BY <1>3, <2>3 DEF ReportRows
    <3>2. TabOf(report) = "checked-out"
      BY <2>3 DEF TabOf
    <3> QED
      BY <1>1, <2>1, <2>2, <3>1, <3>2 DEF BookingInTab, Tabs, p
  <2>4. CASE report = "overdue"
    <3>1. ReportRows(report, AnyStatus, a, p) = {r \in Present : BookingInTab("overdue", rows[r])}
      BY <1>3, <2>4 DEF ReportRows
    <3>2. TabOf(report) = "overdue"
      BY <2>4 DEF TabOf
    <3> QED
      BY <1>1, <2>1, <2>2, <3>1, <3>2 DEF Tabs, p
  <2>5. CASE report = "bookingHistory"
    <3>1. ReportRows(report, AnyStatus, a, p) = Present
      BY <1>3, <2>5 DEF ReportRows
    <3>2. TabOf(report) = "all"
      BY <2>5 DEF TabOf
    <3>3. Listed(TabOf(report), a, p) = Present
      BY <2>2, <3>2 DEF BookingInTab
    <3> QED
      BY <1>1, <2>1, <3>1, <3>2, <3>3 DEF Tabs, p
  <2> QED
    BY <1>4, <2>3, <2>4, <2>5
<1>5. CASE report \in {"kitUtilisation", "editorHistory", "equipmentStatus", "issues"}
  <2>1. TabOf(report) = "all"
    BY <1>5 DEF TabOf
  <2>2. kind \in {"kits", "editors", "assets", "issues"}
    BY <1>5 DEF ReportOf
  <2>3. ReportRows(report, AnyStatus, a, p) = Present
    BY <1>5 DEF ReportRows
  <2>4. \A r \in Present : rows[r].state \in States(kind)
    BY RowOfItsKind
  <2>5. Listed("all", a, p) = Present
    BY <2>2, <2>4 DEF Listed, KitViewStatuses, AssetViewStatuses, IssueInTab, EditorInTab
  <2> QED
    BY <2>1, <2>2, <2>3, <2>5 DEF Tabs, p
<1>6. CASE report = "missingDamaged"
  <2>1. TabOf(report) = "missing-damaged" /\ kind = "assets"
    BY <1>6 DEF TabOf, ReportOf
  <2>2. ReportRows(report, AnyStatus, a, p) = {r \in Present : rows[r].state \in {"MISSING", "DAMAGED"}}
    BY <1>6 DEF ReportRows, AnyStatus
  <2>3. Listed("missing-damaged", a, p) = {r \in Present : rows[r].state \in {"MISSING", "DAMAGED"}}
    BY <2>1 DEF Listed, AssetViewStatuses
  <2> QED
    BY <2>1, <2>2, <2>3 DEF Tabs, p
<1> QED
  BY <1>2, <1>4, <1>5, <1>6

LEMMA ReportsTell == ASSUME ListsInv PROVE ReportsTellTheTabs
<1> SUFFICES ASSUME NEW a \in Accounts, NEW report \in DOMAIN Reports, ReportOf(report) = kind,
                    MayRunReport(a, report)
             PROVE  LET p == link[a]
                        total(wanted) == Cardinality(ReportRows(report, wanted, a, p)) IN
                    /\ kind = "bookings" => ReadsAll(a)
                    /\ report \in {"bookingHistory", "kitUtilisation", "editorHistory",
                                   "equipmentStatus", "issues"}
                         => total(AnyStatus) = TabNumber("all", a, p)
                    /\ report = "checkedOut" => total(AnyStatus) = TabNumber("checked-out", a, p)
                    /\ report = "overdue" => total(AnyStatus) = TabNumber("overdue", a, p)
                    /\ report = "missingDamaged" =>
                         total(AnyStatus) = TabNumber("missing-damaged", a, p)
                    /\ report = "issues" =>
                         /\ total("UNDER_INVESTIGATION") = TabNumber("investigating", a, p)
                         /\ total("OPEN") + total("UNDER_INVESTIGATION") = TabNumber("open", a, p)
                    /\ \A asked \in 0 .. (total(AnyStatus) + 2) :
                         LET at == Paginate(asked, total(AnyStatus)) IN
                         /\ at.page \in 1 .. at.pages
                         /\ total(AnyStatus) > 0 => at.skip < total(AnyStatus)
  BY DEF ReportsTellTheTabs
<1> DEFINE p == link[a]
           all == Cardinality(ReportRows(report, AnyStatus, a, p))
<1>1. /\ kind = "bookings" => ReadsAll(a)
      /\ TabOf(report) \in Tabs(kind)
      /\ ReportRows(report, AnyStatus, a, p) = Listed(TabOf(report), a, p)
  BY ReportIsATab
<1>2. all = TabNumber(TabOf(report), a, p)
  BY <1>1, TabsCount
<1>3. all \in Nat
  <2>1. Listed(TabOf(report), a, p) \in SUBSET Records
    BY DEF Listed, Present
  <2> QED
    BY <1>1, <2>1, RecordsAreFinite
<1>4. \A asked \in 0 .. (all + 2) :
         LET at == Paginate(asked, all) IN at.page \in 1 .. at.pages /\ (all > 0 => at.skip < all)
  <2> HIDE DEF all
  <2> QED
    BY <1>3, LastPageIsNotEmpty
<1>5. report = "issues" =>
        /\ Cardinality(ReportRows(report, "UNDER_INVESTIGATION", a, p)) = TabNumber("investigating", a, p)
        /\ Cardinality(ReportRows(report, "OPEN", a, p)) + Cardinality(ReportRows(report, "UNDER_INVESTIGATION", a, p))
             = TabNumber("open", a, p)
  <2>1. report = "issues" => kind = "issues"
    BY DEF ReportOf
  <2> QED
    BY <2>1, IssueReport
<1>6. /\ report \in {"bookingHistory", "kitUtilisation", "editorHistory", "equipmentStatus", "issues"}
           => TabOf(report) = "all"
      /\ report = "checkedOut" => TabOf(report) = "checked-out"
      /\ report = "overdue" => TabOf(report) = "overdue"
      /\ report = "missingDamaged" => TabOf(report) = "missing-damaged"
  BY DEF TabOf
<1> QED
  BY <1>1, <1>2, <1>4, <1>5, <1>6

\* The tables and the links to profiles keep their types.
THEOREM ListsAreSound == ListsSpec => []ListsInv
BY ListsBegin, ListsInductive, PTL DEF ListsSpec

\* The tabs, the dashboard's figures and panels and the reports count the same
\* rows (countBookingsByFilter, countKitsByStatus, the report definitions).
THEOREM TheNumbersAgree == ListsSpec => []NumbersAgree
<1>1. ListsInv => NumbersAgree
  BY TabsTell, FiguresTell, PanelsShow, ReportsTell DEF NumbersAgree
<1> QED
  BY <1>1, ListsAreSound, PTL

-----------------------------------------------------------------------------
(* Walking through a list *)

\* The lists whose last sort key is unique.
Kept == {"bookings", "kits", "assets", "categories"}

\* One record before another, by the keys of such a list.
Before(keys, r, q) ==
    \/ keys = <<"date", "number">> /\ rows[r].date < rows[q].date
    \/ keys = <<"date", "number">> /\ rows[r].date = rows[q].date /\ r < q
    \/ keys = <<"number">> /\ r < q

LEMMA KeysEndWithTheNumber ==
    ASSUME kind \in Kept, NEW sort \in {"number", "date"}
    PROVE  SortKeys(kind, sort) \in {<<"number">>, <<"date", "number">>}
BY DEF Kept, SortKeys

\* In an order of such a list, each record comes strictly before the later ones.
LEMMA OrderedMeansBefore ==
    ASSUME ListsInv, NEW L \in SUBSET Present, NEW keys \in {<<"number">>, <<"date", "number">>},
           NEW seq \in Orders(L, keys)
    PROVE  /\ seq \in [1 .. Cardinality(L) -> L]
           /\ \A i, j \in 1 .. Cardinality(L) : i # j => seq[i] # seq[j]
           /\ \A i, j \in 1 .. Cardinality(L) : i < j => Before(keys, seq[i], seq[j])
<1>1. seq \in SetToSeqs(L) /\ Sorted(seq, keys)
  BY DEF Orders
<1>2. /\ seq \in [1 .. Cardinality(L) -> L]
      /\ \A i, j \in 1 .. Cardinality(L) : i # j => seq[i] # seq[j]
  BY <1>1 DEF SetToSeqs
<1>3. ASSUME NEW i \in 1 .. Cardinality(L), NEW j \in 1 .. Cardinality(L), i < j
      PROVE  Before(keys, seq[i], seq[j])
  <2>1. /\ seq[i] \in Nat /\ seq[j] \in Nat /\ seq[i] # seq[j]
    <3>1. i # j
      BY <1>3
    <3>2. seq[i] \in L /\ seq[j] \in L /\ seq[i] # seq[j]
      BY <1>2, <3>1
    <3> QED
      BY <3>2, PresentAreRecords, ListsAssumption
  <2>2. PICK n \in DOMAIN keys :
            /\ \A m \in 1 .. (n - 1) : Key(seq[i], keys[m]) = Key(seq[j], keys[m])
            /\ \/ Key(seq[i], keys[n]) < Key(seq[j], keys[n])
               \/ n = Len(keys) /\ Key(seq[i], keys[n]) = Key(seq[j], keys[n])
    BY <1>1, <1>2, <1>3 DEF Sorted
  <2>3. CASE keys = <<"number">>
    <3>1. n = 1 /\ keys[n] = "number"
      BY <2>2, <2>3
    <3> QED
      BY <2>1, <2>2, <2>3, <3>1 DEF Key, Before
  <2>4. CASE keys = <<"date", "number">>
    <3>1. /\ n \in 1 .. 2 /\ Len(keys) = 2 /\ keys[1] = "date" /\ keys[2] = "number"
      BY <2>2, <2>4
    <3>2. CASE n = 1
      BY <2>2, <2>4, <3>1, <3>2 DEF Key, Before
    <3>3. CASE n = 2
      <4>1. Key(seq[i], "date") = Key(seq[j], "date")
        BY <2>2, <3>1, <3>3
      <4>2. Key(seq[i], "number") < Key(seq[j], "number") \/ Key(seq[i], "number") = Key(seq[j], "number")
        BY <2>2, <3>1, <3>3
      <4> QED
        BY <2>1, <2>4, <4>1, <4>2 DEF Key, Before
    <3> QED
      BY <3>1, <3>2, <3>3
  <2> QED
    BY <2>3, <2>4
<1> QED
  BY <1>2, <1>3

LEMMA BeforeIsOneWay ==
    ASSUME ListsInv, NEW keys \in {<<"number">>, <<"date", "number">>},
           NEW r \in Present, NEW q \in Present, Before(keys, r, q), Before(keys, q, r)
    PROVE  FALSE
<1>1. r \in Nat /\ q \in Nat
  BY PresentAreRecords, ListsAssumption
<1>2. rows[r].date \in Nat /\ rows[q].date \in Nat
  BY RowOfItsKind, ListsAssumption DEF Dates
<1>3. <<"number">> # <<"date", "number">>
  OBVIOUS
<1> QED
  BY <1>1, <1>2, <1>3 DEF Before

\* A sequence of all elements of a finite set, each once.
LEMMA AllAreListed ==
    ASSUME NEW L, IsFiniteSet(L), NEW seq \in [1 .. Cardinality(L) -> L],
           \A i, j \in 1 .. Cardinality(L) : i # j => seq[i] # seq[j]
    PROVE  \A r \in L : \E i \in 1 .. Cardinality(L) : seq[i] = r
<1> DEFINE D == 1 .. Cardinality(L)
<1>1. Cardinality(L) \in Nat
  BY FS_CardinalityType
<1>2. Cardinality(D) = Cardinality(L)
  BY <1>1, FS_Interval
<1>3. seq \in Injection(D, L)
  BY DEF Injection, IsInjective
<1>4. seq \in Surjection(D, L)
  BY <1>2, <1>3, FS_Injection
<1> QED
  BY <1>4 DEF Surjection

\* Such a list has one order only: were two different, look where they first
\* differ; what one has there the other has later, and the other way round.
LEMMA OneOrder ==
    ASSUME ListsInv, NEW L \in SUBSET Present, NEW keys \in {<<"number">>, <<"date", "number">>},
           NEW s \in Orders(L, keys), NEW t \in Orders(L, keys)
    PROVE  s = t
<1> DEFINE n == Cardinality(L)
           T == {i \in 1 .. n : s[i] # t[i]}
<1>1. IsFiniteSet(L) /\ n \in Nat
  BY PresentAreRecords, RecordsAreFinite
<1>2. /\ s \in [1 .. n -> L] /\ t \in [1 .. n -> L]
      /\ \A i, j \in 1 .. n : i # j => s[i] # s[j]
      /\ \A i, j \in 1 .. n : i # j => t[i] # t[j]
      /\ \A i, j \in 1 .. n : i < j => Before(keys, s[i], s[j])
      /\ \A i, j \in 1 .. n : i < j => Before(keys, t[i], t[j])
  BY OrderedMeansBefore
<1>3. SUFFICES ASSUME T # {} PROVE FALSE
  <2>1. ASSUME T = {} PROVE s = t
    <3>1. \A i \in 1 .. n : s[i] = t[i]
      BY <2>1
    <3> HIDE DEF n
    <3>2. s = [i \in 1 .. n |-> s[i]] /\ t = [i \in 1 .. n |-> t[i]]
      BY <1>2
    <3>3. [i \in 1 .. n |-> s[i]] = [i \in 1 .. n |-> t[i]]
      BY <3>1
    <3> QED
      BY <3>2, <3>3
  <2> QED
    BY <2>1
<1>4. PICK i \in T : \A k \in T : i <= k
  <2>1. T \subseteq Nat
    OBVIOUS
  <2> HIDE DEF T
  <2> QED
    BY <1>3, <2>1, LeastNumber
<1>5. \A k \in 1 .. n : k < i => s[k] = t[k]
  BY <1>4
<1>6. s[i] \in L /\ t[i] \in L /\ s[i] # t[i] /\ i \in 1 .. n
  BY <1>2, <1>4
<1>7. PICK j \in 1 .. n : t[j] = s[i]
  <2>1. \A r \in L : \E k \in 1 .. n : t[k] = r
    BY <1>1, <1>2, AllAreListed
  <2> QED
    BY <1>6, <2>1
<1>8. PICK k \in 1 .. n : s[k] = t[i]
  <2>1. \A r \in L : \E m \in 1 .. n : s[m] = r
    BY <1>1, <1>2, AllAreListed
  <2> QED
    BY <1>6, <2>1
<1> HIDE DEF T, n
<1>9. i < j
  <2>1. i # j
    BY <1>6, <1>7
  <2>2. ~(j < i)
    BY <1>2, <1>5, <1>6, <1>7
  <2> QED
    BY <1>1, <1>6, <1>7, <2>1, <2>2
<1>10. i < k
  <2>1. i # k
    BY <1>6, <1>8
  <2>2. ~(k < i)
    BY <1>2, <1>5, <1>6, <1>8
  <2> QED
    BY <1>1, <1>6, <1>8, <2>1, <2>2
<1>11. Before(keys, t[i], s[i]) /\ Before(keys, s[i], t[i])
  BY <1>2, <1>6, <1>7, <1>8, <1>9, <1>10
<1> QED
  BY <1>6, <1>11, BeforeIsOneWay

\* Where the page ends.
UpTo(page, n) == IF page * PageSize > n THEN n ELSE page * PageSize

\* One page more of what is shown.
LEMMA OnePageMore ==
    ASSUME NEW S, NEW n \in Nat, NEW seq \in [1 .. n -> S], NEW page \in Nat \ {0}
    PROVE  /\ PageOf(seq, page) \in Seq(S)
           /\ (page - 1) * PageSize <= n =>
                SubSeq(seq, 1, (page - 1) * PageSize) \o PageOf(seq, page) = SubSeq(seq, 1, UpTo(page, n))
<1> DEFINE k == (page - 1) * PageSize
           last == page * PageSize
           m == IF last > n THEN n ELSE last
<1>1. PageSize \in Nat \ {0}
  BY ListsAssumption
<1>2. k \in Nat /\ last \in Nat /\ last - PageSize = k
  BY <1>1
<1>3. seq \in Seq(S) /\ Len(seq) = n
  OBVIOUS
<1>4. PageOf(seq, page) = SubSeq(seq, k + 1, m)
  BY <1>2, <1>3 DEF PageOf
<1> HIDE DEF k, last
<1>5. m \in Nat /\ m <= n
  BY <1>2
<1>6. PageOf(seq, page) \in Seq(S)
  <2>1. \A i \in k + 1 .. m : seq[i] \in S
    BY <1>2, <1>5
  <2> HIDE DEF m
  <2> QED
    BY <1>2, <1>4, <1>5, <2>1, SubSeqProperties
<1>7. ASSUME k <= n PROVE SubSeq(seq, 1, k) \o PageOf(seq, page) = SubSeq(seq, 1, m)
  <2>1. k <= m
    BY <1>1, <1>2, <1>7
  <2> HIDE DEF m
  <2>2. 1 \in 1 .. Len(seq) + 1 /\ k \in 1 - 1 .. Len(seq) /\ m \in k .. Len(seq)
    BY <1>2, <1>3, <1>5, <1>7, <2>1
  <2> QED
    BY <1>3, <1>4, <2>2, ConcatAdjacentSubSeq
<1> QED
  BY <1>6, <1>7 DEF k, last, UpTo

-----------------------------------------------------------------------------
(* The invariant of a walk *)

Walks ==
    [phase : {"idle", "asked", "resolved", "counted", "done"}, account : Accounts \cup {Unlinked},
     tab : UNION {Tabs(k) : k \in Kinds}, sort : {"number", "date"},
     profile : Profiles \cup {Unlinked}, total : Nat, page : Nat \ {0},
     shown : Seq(Records), steady : BOOLEAN]

\* What the walk should show, and in what order.
ToShow == Listed(reader.tab, reader.account, link[reader.account])
InOrder == Orders(ToShow, SortKeys(kind, reader.sort))

\* So far the pages shown are the beginning of the list, and they have not
\* run past it; what the request read is still so.
OnTheWay ==
    /\ reader.phase \in {"resolved", "counted"} => reader.profile = link[reader.account]
    /\ reader.phase = "counted" => reader.total = Cardinality(ToShow)
    /\ reader.phase \in {"asked", "resolved", "counted"} =>
         /\ (reader.page - 1) * PageSize <= Cardinality(ToShow)
         /\ reader.page <= PageCountFor(Cardinality(ToShow))
         /\ \A seq \in InOrder : reader.shown = SubSeq(seq, 1, (reader.page - 1) * PageSize)
    /\ reader.phase = "done" => reader.shown \in InOrder

WalkInv ==
    /\ ListsInv
    /\ reader \in Walks
    /\ reader.phase # "idle" => reader.account \in Accounts
    /\ reader.phase # "idle" /\ reader.steady /\ kind \in Kept => OnTheWay

\* As long as nobody writes, what should be shown and its orders stay.
LEMMA SameList ==
    ASSUME UNCHANGED <<kind, rows, link>>, reader'.tab = reader.tab,
           reader'.account = reader.account, reader'.sort = reader.sort
    PROVE  ToShow' = ToShow /\ InOrder' = InOrder
<1>1. ToShow' = ToShow
  BY DEF ToShow, Listed, Present, VisibilityFor
<1>2. SortKeys(kind, reader.sort)' = SortKeys(kind, reader.sort)
  BY DEF SortKeys
<1>3. \A S, keys : Orders(S, keys)' = Orders(S, keys)
  BY DEF Orders, Sorted, Key
<1> QED
  BY <1>1, <1>2, <1>3 DEF InOrder

LEMMA ToShowIsPresent ==
    /\ ToShow \in SUBSET Present
    /\ Cardinality(ToShow) \in Nat /\ IsFiniteSet(ToShow)
<1>1. ToShow \in SUBSET Present
  BY DEF ToShow, Listed
<1> QED
  BY <1>1, PresentAreRecords, RecordsAreFinite

LEMMA WalkBegins == ListsInit => WalkInv
<1> SUFFICES ASSUME ListsInit PROVE WalkInv
  OBVIOUS
<1>1. reader = NoWalk
  BY DEF ListsInit
<1>2. NoWalk \in Walks /\ NoWalk.phase = "idle"
  <2>1. "all" \in Tabs("bookings") /\ "bookings" \in Kinds
    BY DEF Tabs, Kinds
  <2>2. <<>> \in Seq(Records)
    OBVIOUS
  <2> QED
    BY <2>1, <2>2 DEF NoWalk, Walks
<1> QED
  BY <1>1, <1>2, ListsBegin DEF WalkInv

\* A new walk: nothing is shown, and nothing should be.
LEMMA OpenBegins ==
    ASSUME WalkInv, NEW a \in Accounts, NEW tab \in Tabs(kind), NEW sort \in {"number", "date"},
           Open(a, tab, sort), ListsInv'
    PROVE  WalkInv'
<1> DEFINE r == [phase |-> "asked", account |-> a, tab |-> tab, sort |-> sort,
                 profile |-> Unlinked, total |-> 0, page |-> 1, shown |-> <<>>, steady |-> TRUE]
<1>1. reader' = r
  BY DEF Open, NoWalk
<1>2. r \in Walks
  <2>1. kind \in Kinds /\ <<>> \in Seq(Records)
    BY DEF WalkInv, ListsInv
  <2> QED
    BY <2>1 DEF Walks
<1>3. ToShow' \in SUBSET Present' /\ Cardinality(ToShow') \in Nat
  <2>1. ToShow' \in SUBSET Present'
    BY DEF ToShow, Listed
  <2>2. Present' \in SUBSET Records
    BY DEF Present
  <2> QED
    BY <2>1, <2>2, RecordsAreFinite
<1>4. 1 <= PageCountFor(Cardinality(ToShow'))
  BY <1>3, PagesAreEnough
<1>5. (1 - 1) * PageSize = 0
  BY ListsAssumption
<1>6. \A seq : <<>> = SubSeq(seq, 1, 0)
  BY SubSeqEmpty
<1>7. OnTheWay'
  BY <1>1, <1>3, <1>4, <1>5, <1>6 DEF OnTheWay
<1> QED
  BY <1>1, <1>2, <1>7 DEF WalkInv

\* The profile the request resolved is the one linked.
LEMMA ResolvedOnTheWay ==
    ASSUME WalkInv, ResolveActor, ListsInv'
    PROVE  WalkInv'
<1>1. /\ reader.phase = "asked" /\ UNCHANGED <<kind, rows, link>>
      /\ reader' = [reader EXCEPT !.phase = "resolved", !.profile = link[reader.account]]
  BY DEF ResolveActor
<1>2. reader \in Walks /\ reader.account \in Accounts
  BY <1>1 DEF WalkInv
<1>3. link[reader.account] \in Profiles \cup {Unlinked}
  BY <1>2 DEF WalkInv, ListsInv
<1>4. reader' \in Walks
  BY <1>1, <1>2, <1>3 DEF Walks
<1>5. /\ reader'.phase = "resolved" /\ reader'.profile = link[reader.account]
      /\ reader'.account = reader.account /\ reader'.tab = reader.tab /\ reader'.sort = reader.sort
      /\ reader'.page = reader.page /\ reader'.shown = reader.shown /\ reader'.steady = reader.steady
  BY <1>1, <1>2 DEF Walks
<1>6. ToShow' = ToShow /\ InOrder' = InOrder
  BY <1>1, <1>5, SameList
<1>7. OnTheWay => OnTheWay'
  BY <1>1, <1>5, <1>6 DEF OnTheWay
<1> QED
  BY <1>1, <1>2, <1>4, <1>5, <1>7 DEF WalkInv

\* What is counted is what should be shown; the page is not clamped.
LEMMA CountedOnTheWay ==
    ASSUME WalkInv, CountRows, ListsInv'
    PROVE  WalkInv'
<1> DEFINE total == Cardinality(Listed(reader.tab, reader.account, reader.profile))
<1>1. /\ reader.phase = "resolved" /\ UNCHANGED <<kind, rows, link>>
      /\ reader' = [reader EXCEPT !.phase = "counted", !.total = total, !.page = ClampPage(reader.page, total)]
  BY DEF CountRows
<1>2. reader \in Walks /\ reader.account \in Accounts
  BY <1>1 DEF WalkInv
<1>3. total \in Nat
  <2>1. Listed(reader.tab, reader.account, reader.profile) \in SUBSET Records
    BY DEF Listed, Present
  <2> QED
    BY <2>1, RecordsAreFinite
<1>4. reader.profile = link[reader.account] => total = Cardinality(ToShow)
  BY DEF ToShow
<1> HIDE DEF total
<1>5. reader.page \in Nat \ {0}
  BY <1>2 DEF Walks
<1>6. /\ ClampPage(reader.page, total) \in Nat \ {0}
      /\ reader.page <= PageCountFor(total) => ClampPage(reader.page, total) = reader.page
  <2>1. PageCountFor(total) \in Nat \ {0}
    BY <1>3, PagesAreEnough
  <2> QED
    BY <1>5, <2>1 DEF ClampPage
<1>7. reader' \in Walks
  BY <1>1, <1>2, <1>3, <1>6 DEF Walks
<1>8. /\ reader'.phase = "counted" /\ reader'.profile = reader.profile /\ reader'.total = total
      /\ reader'.account = reader.account /\ reader'.tab = reader.tab /\ reader'.sort = reader.sort
      /\ reader'.page = ClampPage(reader.page, total)
      /\ reader'.shown = reader.shown /\ reader'.steady = reader.steady
  BY <1>1, <1>2 DEF Walks
<1>9. ToShow' = ToShow /\ InOrder' = InOrder
  BY <1>1, <1>8, SameList
<1>10. OnTheWay => OnTheWay'
  BY <1>1, <1>4, <1>6, <1>8, <1>9 DEF OnTheWay
<1> QED
  BY <1>1, <1>2, <1>7, <1>8, <1>10 DEF WalkInv

\* A page is read: it is the next stretch of the one order there is.
LEMMA ReadOnTheWay ==
    ASSUME WalkInv, ReadPage, ListsInv'
    PROVE  WalkInv'
<1> DEFINE rest == Listed(reader.tab, reader.account, reader.profile)
           last == reader.page >= PageCountFor(reader.total)
<1>1. reader.phase = "counted" /\ UNCHANGED <<kind, rows, link>>
  BY DEF ReadPage
<1>2. PICK seq \in Orders(rest, SortKeys(kind, reader.sort)) :
        reader' = [reader EXCEPT
            !.shown = reader.shown \o PageOf(seq, reader.page),
            !.phase = IF last THEN "done" ELSE "asked",
            !.page = IF last THEN reader.page ELSE reader.page + 1]
  BY DEF ReadPage
<1>3. /\ reader \in Walks /\ reader.account \in Accounts
      /\ reader.page \in Nat \ {0} /\ reader.total \in Nat /\ reader.shown \in Seq(Records)
  BY <1>1 DEF WalkInv, Walks
<1>4. rest \in SUBSET Records /\ Cardinality(rest) \in Nat
  <2>1. rest \in SUBSET Records
    BY DEF Listed, Present
  <2> QED
    BY <2>1, RecordsAreFinite
<1>5. reader.profile = link[reader.account] => rest = ToShow
  BY DEF ToShow
<1> HIDE DEF rest, last
<1>6. seq \in [1 .. Cardinality(rest) -> rest]
  BY <1>2 DEF Orders, SetToSeqs
<1>7. seq \in [1 .. Cardinality(rest) -> Records]
  BY <1>4, <1>6
<1>8. PageOf(seq, reader.page) \in Seq(Records)
  BY <1>3, <1>4, <1>7, OnePageMore
<1>9. reader.shown \o PageOf(seq, reader.page) \in Seq(Records)
  BY <1>3, <1>8, ConcatProperties
<1> DEFINE more == reader.shown \o PageOf(seq, reader.page)
<1>10. reader' \in Walks
  <2>1. reader' = [reader EXCEPT !.shown = more, !.phase = IF last THEN "done" ELSE "asked",
                                 !.page = IF last THEN reader.page ELSE reader.page + 1]
    BY <1>2
  <2>2. more \in Seq(Records) /\ (IF last THEN reader.page ELSE reader.page + 1) \in Nat \ {0}
    BY <1>3, <1>9
  <2> HIDE DEF more
  <2> QED
    BY <1>3, <2>1, <2>2 DEF Walks
<1>11. /\ reader'.phase = (IF last THEN "done" ELSE "asked") /\ reader'.profile = reader.profile
       /\ reader'.account = reader.account /\ reader'.tab = reader.tab /\ reader'.sort = reader.sort
       /\ reader'.page = (IF last THEN reader.page ELSE reader.page + 1)
       /\ reader'.shown = reader.shown \o PageOf(seq, reader.page)
       /\ reader'.steady = reader.steady
  BY <1>2, <1>3 DEF Walks
<1>12. ToShow' = ToShow /\ InOrder' = InOrder
  BY <1>1, <1>11, SameList
<1>13. ASSUME kind \in Kept, OnTheWay PROVE OnTheWay'
  <2> DEFINE n == Cardinality(ToShow)
             upto == UpTo(reader.page, n)
  <2>1. rest = ToShow /\ reader.total = n
    BY <1>1, <1>5, <1>13 DEF OnTheWay
  <2>2. seq \in InOrder
    BY <1>2, <2>1 DEF InOrder
  <2>3. reader.shown = SubSeq(seq, 1, (reader.page - 1) * PageSize) /\ (reader.page - 1) * PageSize <= n
    BY <1>1, <1>13, <2>2 DEF OnTheWay
  <2>4. n \in Nat
    BY ToShowIsPresent
  <2>5. seq \in [1 .. n -> Records] /\ seq \in Seq(Records) /\ Len(seq) = n
    BY <1>7, <2>1, <2>4
  <2> HIDE DEF n
  <2>6. reader'.shown = SubSeq(seq, 1, upto)
    <3> HIDE DEF upto
    <3>1. SubSeq(seq, 1, (reader.page - 1) * PageSize) \o PageOf(seq, reader.page) = SubSeq(seq, 1, upto)
      <4>1. (reader.page - 1) * PageSize <= n =>
              SubSeq(seq, 1, (reader.page - 1) * PageSize) \o PageOf(seq, reader.page)
                = SubSeq(seq, 1, UpTo(reader.page, n))
        BY <1>3, <2>4, <2>5, OnePageMore
      <4> QED
        BY <2>3, <4>1 DEF upto
    <3> QED
      BY <1>11, <2>3, <3>1
  <2>7. /\ PageCountFor(n) \in Nat \ {0} /\ PageSize \in Nat \ {0}
        /\ n <= PageCountFor(n) * PageSize
        /\ n > 0 => (PageCountFor(n) - 1) * PageSize < n
        /\ n = 0 => PageCountFor(n) = 1
    BY <2>4, PagesAreEnough, ListsAssumption
  <2>8. CASE last
    <3>1. reader.page >= PageCountFor(n)
      BY <2>1, <2>8 DEF last
    <3>2. PageCountFor(n) * PageSize <= reader.page * PageSize
      BY <1>3, <2>7, <3>1
    <3>3. PageCountFor(n) * PageSize \in Nat /\ reader.page * PageSize \in Nat
      BY <1>3, <2>7
    <3>4. upto = n
      <4> DEFINE all == PageCountFor(n) * PageSize
                 reach == reader.page * PageSize
      <4>1. n <= all /\ all <= reach /\ all \in Nat /\ reach \in Nat
        BY <2>7, <3>2, <3>3
      <4>2. upto = IF reach > n THEN n ELSE reach
        BY DEF UpTo
      <4> HIDE DEF all, reach, upto
      <4> QED
        BY <2>4, <4>1, <4>2
    <3>5. SubSeq(seq, 1, n) = seq
      BY <2>5, SubSeqFull
    <3>6. reader'.shown = seq
      <4> HIDE DEF upto
      <4> QED
        BY <2>6, <3>4, <3>5
    <3> QED
      BY <1>11, <1>12, <2>2, <2>8, <3>6 DEF OnTheWay
  <2>9. CASE ~last
    <3>1. reader.page < PageCountFor(n)
      BY <1>3, <2>1, <2>7, <2>9 DEF last
    <3>2. reader.page <= PageCountFor(n) - 1 /\ n > 0
      BY <1>3, <2>4, <2>7, <3>1
    <3>3. reader.page * PageSize <= (PageCountFor(n) - 1) * PageSize
      BY <1>3, <2>7, <3>2
    <3>4. (PageCountFor(n) - 1) * PageSize \in Nat /\ reader.page * PageSize \in Nat
      BY <1>3, <2>7
    <3>5. reader.page * PageSize <= n /\ upto = reader.page * PageSize
      BY <2>4, <2>7, <3>2, <3>3, <3>4 DEF UpTo
    <3>6. reader'.page - 1 = reader.page
      BY <1>3, <1>11, <2>9
    <3>7. ASSUME NEW other \in InOrder PROVE reader'.shown = SubSeq(other, 1, reader.page * PageSize)
      <4>1. SortKeys(kind, reader.sort) \in {<<"number">>, <<"date", "number">>}
        <5>1. reader.sort \in {"number", "date"}
          BY <1>3 DEF Walks
        <5> QED
          BY <1>13, <5>1, KeysEndWithTheNumber
      <4>2. other = seq
        BY <2>2, <4>1, ToShowIsPresent, OneOrder DEF InOrder, WalkInv
      <4> HIDE DEF upto
      <4> QED
        BY <2>6, <3>5, <4>2
    <3>8. reader'.page <= PageCountFor(n)
      BY <1>3, <1>11, <2>7, <2>9, <3>1
    <3>9. reader'.phase = "asked"
      BY <1>11, <2>9
    <3>10. Cardinality(ToShow') = n
      BY <1>12 DEF n
    <3> QED
      BY <1>12, <3>5, <3>6, <3>7, <3>8, <3>9, <3>10 DEF OnTheWay
  <2> QED
    BY <2>8, <2>9
<1> QED
  BY <1>1, <1>3, <1>10, <1>11, <1>13 DEF WalkInv

\* What somebody else writes ends the claim about this walk.
LEMMA DisturbedWalk ==
    ASSUME WalkInv, Disturbed, ListsInv', kind' = kind
    PROVE  WalkInv'
<1>1. reader' = [reader EXCEPT !.steady = FALSE] /\ reader \in Walks /\ reader.phase # "idle"
  BY DEF Disturbed, WalkInv
<1>2. reader' \in Walks /\ reader'.steady = FALSE /\ reader'.account = reader.account /\ reader'.phase = reader.phase
  BY <1>1 DEF Walks
<1> QED
  BY <1>1, <1>2 DEF WalkInv

LEMMA WalkInductive == WalkInv /\ [ListsNext]_listVars => WalkInv'
<1> SUFFICES ASSUME WalkInv, [ListsNext]_listVars PROVE WalkInv'
  OBVIOUS
<1>1. ListsInv'
  BY ListsInductive DEF WalkInv
<1>2. CASE UNCHANGED listVars
  <2>1. UNCHANGED <<kind, rows, link, reader>>
    BY <1>2 DEF listVars
  <2>2. ToShow' = ToShow /\ InOrder' = InOrder
    BY <2>1, SameList
  <2> QED
    BY <1>1, <2>1, <2>2 DEF WalkInv, OnTheWay
<1>3. ASSUME NEW a \in Accounts, NEW tab \in Tabs(kind) \cap WalkedTabs, NEW sort \in {"number", "date"},
             Open(a, tab, sort)
      PROVE  WalkInv'
  BY <1>1, <1>3, OpenBegins
<1>4. CASE ResolveActor
  BY <1>1, <1>4, ResolvedOnTheWay
<1>5. CASE CountRows
  BY <1>1, <1>5, CountedOnTheWay
<1>6. CASE ReadPage
  BY <1>1, <1>6, ReadOnTheWay
<1>7. ASSUME NEW r \in Records, NEW row \in Rows(kind), Write(r, row) PROVE WalkInv'
  BY <1>1, <1>7, DisturbedWalk DEF Write
<1>8. ASSUME NEW a \in Accounts, NEW p \in Profiles \cup {Unlinked}, Relink(a, p) PROVE WalkInv'
  BY <1>1, <1>8, DisturbedWalk DEF Relink
<1> QED
  BY <1>2, <1>3, <1>4, <1>5, <1>6, <1>7, <1>8 DEF ListsNext

\* At the end the order itself has been shown: every element of it, once.
LEMMA DoneShowsAll == WalkInv => PagesCoverTheList
<1> SUFFICES ASSUME WalkInv, reader.phase = "done", reader.steady, kind \in Kept
             PROVE  /\ ToSet(reader.shown) = {r \in ToShow : Theirs(reader.account, r)}
                    /\ Len(reader.shown) = Cardinality(ToSet(reader.shown))
  BY DEF PagesCoverTheList, ToShow, Kept
<1> DEFINE n == Cardinality(ToShow)
<1>1. reader.shown \in InOrder /\ reader.account \in Accounts
  BY DEF WalkInv, OnTheWay
<1>2. /\ n \in Nat /\ IsFiniteSet(ToShow)
      /\ reader.shown \in [1 .. n -> ToShow]
      /\ \A i, j \in 1 .. n : i # j => reader.shown[i] # reader.shown[j]
  BY <1>1, ToShowIsPresent DEF InOrder, Orders, SetToSeqs
<1>3. \A r \in ToShow : \E i \in 1 .. n : reader.shown[i] = r
  BY <1>2, AllAreListed
<1>4. ToSet(reader.shown) = ToShow
  BY <1>2, <1>3 DEF ToSet
<1>5. Len(reader.shown) = n
  BY <1>2
<1>6. ASSUME NEW r \in ToShow PROVE Theirs(reader.account, r)
  <2>1. CASE kind = "bookings"
    <3>1. r \in Records /\ VisibilityFor(reader.account, link[reader.account], r)
      BY <2>1 DEF ToShow, Listed, Present
    <3> QED
      BY <1>1, <2>1, <3>1, DoorsSayTheSame
  <2> QED
    BY <2>1 DEF Theirs
<1> QED
  BY <1>4, <1>5, <1>6

\* A walk nobody disturbs shows every row once (listBookingsPage, listKits,
\* listAssets, listCategoriesPage).
THEOREM WalksShowEverything == ListsSpec => []PagesCoverTheList
<1>1. ListsSpec => []WalkInv
  BY WalkBegins, WalkInductive, PTL DEF ListsSpec
<1> QED
  BY <1>1, DoneShowsAll, PTL
=============================================================================
