------------------------------ MODULE Directory -------------------------------
(***************************************************************************)
(* The client of the corporate directory: from a typed name and password   *)
(* to a verdict, and to the one person the directory vouches for.          *)
(*                                                                         *)
(* A sign-in is a connection, two binds or one, and a search, with the     *)
(* network in between: it can end at each of them, and the directory's own *)
(* people change an entry at any moment.  With a service account the       *)
(* person is found first and proves the password against the entry; in a   *)
(* direct bind the password is proved first, and the entry looked up.      *)
(* What becomes of the verdict is Accounts'.                               *)
(***************************************************************************)
EXTENDS Integers, FiniteSets

CONSTANTS Persons, Logins, Domains,
          Suffix,          \* LDAP_UPN_SUFFIX, one of the domains
          Passwords,
          SignIns,         \* sign-ins that can be under way at once
          EntryInputs,     \* EntryInputs[p]: what the directory may say of p
          TypedDomains,    \* of Domains and NoDomain, those typed after a name
          MaxChanges,      \* bound: changes of entries
          Empty, Gibberish, NoDomain, NoAddress, NoOne

Principals == Logins \X Domains

\* upn: userPrincipalName; listed: below the user base; id: has the id attribute.
Entries == [login : Logins, upn : Principals \cup {NoAddress}, mail : Principals \cup {NoAddress},
            listed : BOOLEAN, id : BOOLEAN, password : Passwords]

ASSUME ClientAssumption ==
    /\ Suffix \in Domains /\ NoDomain \notin Domains /\ TypedDomains \subseteq Domains \cup {NoDomain}
    /\ NoAddress \notin Principals /\ NoOne \notin Persons /\ Empty \notin Passwords
    /\ Gibberish \notin Logins \X TypedDomains
    /\ EntryInputs \in [Persons -> SUBSET Entries]
    /\ MaxChanges \in Nat

VARIABLES
    settings,   \* DirectorySettings, as env.ts lets them through
    person,     \* person[p]: p's entry in the directory
    signIn,     \* signIn[c]: the sign-in under way, or its verdict
    exposed,    \* (history) sign-ins that sent a password in the clear
    changes     \* (history) how often entries were changed

directoryClientVars == <<settings, person, signIn, exposed, changes>>

\* service: the service account, if there is one, and whether its password is
\* the directory's.  base: the user base exists.  trusted: the CA file is there.
Settings == [scheme : {"ldaps", "ldap"}, startTls : BOOLEAN, service : {"none", "right", "wrong"},
             base : BOOLEAN, trusted : BOOLEAN]

\* directoryConfigurationProblems, as far as it can tell.
Startable(s) == s.startTls <=> s.scheme = "ldap"

\* A name the pattern refuses is nobody's.
TypedNames == (Logins \X TypedDomains) \cup {Gibberish}

\* found: the entry the search returned.  proved: (history) whose password the
\* bind accepted.  missed: (history) an entry was changed since it began.
NoSignIn == [at |-> "idle", name |-> Gibberish, typed |-> Empty, channel |-> "closed",
             found |-> NoOne, proved |-> NoOne, verdict |-> "none", missed |-> FALSE]

SignInRecords ==
    [at : {"idle", "connecting", "connected", "bound", "found", "done"},
     name : TypedNames, typed : Passwords \cup {Empty}, channel : {"closed", "plain", "tls"},
     found : Persons \cup {NoOne}, proved : Persons \cup {NoOne},
     verdict : {"none", "ok", "invalid", "unavailable", "misconfigured"}, missed : BOOLEAN]

DirectoryClientTypeOK ==
    /\ settings \in Settings /\ Startable(settings)
    /\ person \in [Persons -> Entries]
    /\ signIn \in [SignIns -> SignInRecords]
    /\ exposed \subseteq SignIns
    /\ changes \in 0 .. MaxChanges

DirectoryClientInit ==
    /\ settings \in {s \in Settings : Startable(s)}
    /\ person \in [Persons -> Entries] /\ \A p \in Persons : person[p] \in EntryInputs[p]
    /\ signIn = [c \in SignIns |-> NoSignIn]
    /\ exposed = {} /\ changes = 0

-----------------------------------------------------------------------------
(* Names *)

Direct == settings.service = "none"

\* accountNameOf: what is before the @.
AccountNameOf(name) == name[1]

\* What a direct bind authenticates as.
Principal(name) == IF name[2] = NoDomain THEN <<name[1], Suffix>> ELSE name

\* LDAP_USER_FILTER, by default an account name, a principal or an address.
Matching(wanted) == {p \in Persons : person[p].listed
                                  /\ wanted \in {person[p].login, person[p].upn, person[p].mail}}

\* (Fault) an entry that goes by the name will do.
EntryIsFound(p, principal) == TRUE

EntryIsPrincipal(p, principal) == person[p].upn = principal

\* External: whom the directory takes a principal for.
Holders(principal) == {p \in Persons : person[p].upn = principal}

\* External: a bind without a password is anonymous, and succeeds.
Accepts(p, typed) == typed = Empty \/ typed = person[p].password
Proves(p, typed)  == IF typed = Empty THEN NoOne ELSE p

-----------------------------------------------------------------------------
(* A sign-in *)

Goes(c, k) == signIn' = [signIn EXCEPT ![c] = k]
Answered(c, k, verdict) == Goes(c, [k EXCEPT !.at = "done", !.channel = "closed", !.verdict = verdict])

\* What travels when the sign-in sends a password.
Sends(c) == exposed' = IF signIn[c].channel = "plain" THEN exposed \cup {c} ELSE exposed

\* (Fault) the password is not looked at before it is sent.
RefusedUnlessPlausible(name, typed) == name = Gibberish

\* Answered without a word to the directory.
RefusedAtOnce(name, typed) == typed = Empty \/ name = Gibberish

Authenticate(c, name, typed) ==
    LET k == [NoSignIn EXCEPT !.name = name, !.typed = typed] IN
    /\ signIn[c].at \in {"idle", "done"}
    /\ \/ RefusedAtOnce(name, typed) /\ Answered(c, k, "invalid")
       \/ /\ ~RefusedAtOnce(name, typed)
          /\ settings.trusted /\ (settings.scheme = "ldaps" \/ settings.startTls)
          /\ Goes(c, [k EXCEPT !.at = "connecting"])
       \/ /\ ~RefusedAtOnce(name, typed)
          /\ ~(settings.trusted /\ (settings.scheme = "ldaps" \/ settings.startTls))
          /\ Answered(c, k, "misconfigured")
    /\ UNCHANGED <<settings, person, exposed, changes>>

\* (Fault) the options that make the connection a secure one are all there is.
ConnectNeverUpgraded(c) ==
    /\ signIn[c].at = "connecting"
    /\ Goes(c, [signIn[c] EXCEPT !.at = "connected",
                  !.channel = IF settings.scheme = "ldaps" THEN "tls" ELSE "plain"])
    /\ UNCHANGED <<settings, person, exposed, changes>>

\* clientOptionsFor, and startTLS for a plain connection.
Connect(c) ==
    /\ signIn[c].at = "connecting"
    /\ Goes(c, [signIn[c] EXCEPT !.at = "connected",
                  !.channel = IF settings.scheme = "ldaps" \/ settings.startTls THEN "tls"
                              ELSE "plain"])
    /\ UNCHANGED <<settings, person, exposed, changes>>

\* (Fault) a bind that is refused is a wrong password.
BindServiceAccountBlaming(c) ==
    LET k == signIn[c] IN
    /\ k.at = "connected" /\ ~Direct
    /\ Sends(c)
    /\ IF settings.service = "right" THEN Goes(c, [k EXCEPT !.at = "bound"])
       ELSE Answered(c, k, "invalid")
    /\ UNCHANGED <<settings, person, changes>>

BindServiceAccount(c) ==
    LET k == signIn[c] IN
    /\ k.at = "connected" /\ ~Direct
    /\ Sends(c)
    /\ IF settings.service = "right" THEN Goes(c, [k EXCEPT !.at = "bound"])
       ELSE Answered(c, k, "misconfigured")
    /\ UNCHANGED <<settings, person, changes>>

\* findOne: nobody, and more than one, are the same answer.
FindPerson(c) ==
    LET k == signIn[c]  listed == Matching(AccountNameOf(k.name)) IN
    /\ k.at = "bound" /\ ~Direct
    /\ \/ ~settings.base /\ Answered(c, k, "misconfigured")
       \/ settings.base /\ \E p \in listed : listed = {p} /\ Goes(c, [k EXCEPT !.at = "found", !.found = p])
       \/ settings.base /\ (\A p \in listed : listed # {p}) /\ Answered(c, k, "invalid")
    /\ UNCHANGED <<settings, person, exposed, changes>>

BindPerson(c) ==
    LET k == signIn[c] IN
    /\ k.at = "found"
    /\ Sends(c)
    /\ IF Accepts(k.found, k.typed)
       THEN Answered(c, [k EXCEPT !.proved = Proves(k.found, k.typed)],
                 IF person[k.found].id THEN "ok" ELSE "misconfigured")
       ELSE Answered(c, k, "invalid")
    /\ UNCHANGED <<settings, person, changes>>

BindPrincipal(c) ==
    LET k == signIn[c]  holders == Holders(Principal(k.name)) IN
    /\ k.at = "connected" /\ Direct
    /\ Sends(c)
    /\ \/ \E p \in holders : /\ holders = {p} /\ Accepts(p, k.typed)
                             /\ Goes(c, [k EXCEPT !.at = "bound", !.proved = Proves(p, k.typed)])
       \/ /\ \A p \in holders : holders = {p} => ~Accepts(p, k.typed)
          /\ Answered(c, k, "invalid")
    /\ UNCHANGED <<settings, person, changes>>

\* The entry is the one the password was proved for, or the settings are wrong.
ReadOwnEntry(c) ==
    LET k == signIn[c]  principal == Principal(k.name)  listed == Matching(principal)
        own == {p \in listed : listed = {p} /\ EntryIsPrincipal(p, principal) /\ person[p].id} IN
    /\ k.at = "bound" /\ Direct
    /\ \/ settings.base /\ \E p \in own : Answered(c, [k EXCEPT !.found = p], "ok")
       \/ (settings.base => own = {}) /\ Answered(c, k, "misconfigured")
    /\ UNCHANGED <<settings, person, exposed, changes>>

\* No answer in time, a certificate nobody trusts, a connection reset, any other
\* error of the directory's.
LoseConnection(c) ==
    /\ signIn[c].at \notin {"idle", "done"}
    /\ Answered(c, signIn[c], "unavailable")
    /\ UNCHANGED <<settings, person, exposed, changes>>

\* External: a name, an address, a password or a place in the tree is changed.
ChangeEntry(p, entry) ==
    /\ changes < MaxChanges /\ changes' = changes + 1
    /\ person' = [person EXCEPT ![p] = entry]
    /\ signIn' = [c \in SignIns |-> IF signIn[c].at = "idle" THEN signIn[c]
                                    ELSE [signIn[c] EXCEPT !.missed = TRUE]]
    /\ UNCHANGED <<settings, exposed>>

DirectoryClientNext ==
    \/ \E c \in SignIns :
         \/ \E name \in TypedNames, typed \in Passwords \cup {Empty} : Authenticate(c, name, typed)
         \/ Connect(c) \/ BindServiceAccount(c) \/ FindPerson(c) \/ BindPerson(c)
         \/ BindPrincipal(c) \/ ReadOwnEntry(c) \/ LoseConnection(c)
    \/ \E p \in Persons : \E entry \in EntryInputs[p] \ {person[p]} : ChangeEntry(p, entry)

DirectoryClientSpec == DirectoryClientInit /\ [][DirectoryClientNext]_directoryClientVars

-----------------------------------------------------------------------------
(* Properties *)

\* Whoever is signed in has proved the password, against the directory and over
\* an encrypted connection: the person returned is the one the bind accepted,
\* though names are shared, addresses are somebody else's principals, and an
\* empty password is accepted from anybody; only a direct bind can be misled, by
\* a name that changes hands between the bind and the search (authenticate,
\* entryIsPrincipal, clientOptionsFor).
IdentityIsProved ==
    /\ exposed = {}
    /\ \A c \in SignIns : signIn[c].verdict = "ok" =>
          /\ signIn[c].found \in Persons
          /\ signIn[c].proved = signIn[c].found \/ (Direct /\ signIn[c].missed)

\* The person the name stands for, when it stands for one.
Named(name) == LET named == IF Direct THEN Holders(Principal(name)) ELSE Matching(AccountNameOf(name))
               IN  {p \in named : named = {p}}

\* A person is told of a wrong password only when it was wrong, or the name is
\* nobody's or several people's: not because the service account was refused,
\* and not for a fault of the settings or the entry, which is told apart
\* (classifyDirectoryError, ServiceAccountRefusedError).
FaultsAreNotBlamed ==
    \A c \in SignIns :
        LET k == signIn[c] IN
        /\ k.verdict = "invalid" /\ ~RefusedAtOnce(k.name, k.typed) =>
             /\ settings.trusted /\ settings.service # "wrong"
             /\ k.missed \/ \A p \in Named(k.name) : person[p].password # k.typed
        /\ k.verdict = "misconfigured" /\ settings.trusted /\ settings.base
           /\ settings.service # "wrong" =>
             k.missed \/ \E p \in Named(k.name) :
                            /\ person[p].password = k.typed
                            /\ ~person[p].id \/ (Direct /\ Matching(Principal(k.name)) # {p})
=============================================================================
