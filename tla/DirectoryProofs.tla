--------------------------- MODULE DirectoryProofs ----------------------------
(***************************************************************************)
(* Proofs about the client of the directory, for any number of people,     *)
(* whatever the directory says of them, and any number of sign-ins.        *)
(***************************************************************************)
EXTENDS Directory, TLAPS

UnderWay(k) == k.at \in {"connecting", "connected", "bound", "found"}

\* What a sign-in has got so far, and may still rely on.
Progress(k) ==
    /\ UnderWay(k) => ~RefusedAtOnce(k.name, k.typed) /\ settings.trusted
    /\ k.at \in {"connected", "bound", "found"} => k.channel = "tls"
    /\ k.at = "bound" /\ Direct =>
         /\ k.proved \in Persons
         /\ k.missed \/ (Holders(Principal(k.name)) = {k.proved} /\ person[k.proved].password = k.typed)
    /\ k.at \in {"bound", "found"} /\ ~Direct => settings.service = "right"
    /\ k.at = "found" =>
         /\ ~Direct /\ k.found \in Persons
         /\ k.missed \/ Matching(AccountNameOf(k.name)) = {k.found}
    /\ k.verdict # "none" => k.at = "done"

Proved(k) ==
    k.verdict = "ok" => /\ k.found \in Persons
                        /\ k.proved = k.found \/ (Direct /\ k.missed)

Blamed(k) ==
    k.verdict = "invalid" /\ ~RefusedAtOnce(k.name, k.typed) =>
        /\ settings.trusted /\ settings.service # "wrong"
        /\ k.missed \/ \A p \in Named(k.name) : person[p].password # k.typed

Excused(k) ==
    k.verdict = "misconfigured" /\ settings.trusted /\ settings.base /\ settings.service # "wrong" =>
        k.missed \/ \E p \in Named(k.name) :
                       /\ person[p].password = k.typed
                       /\ ~person[p].id \/ (Direct /\ Matching(Principal(k.name)) # {p})

Sound(k) == Progress(k) /\ Proved(k) /\ Blamed(k) /\ Excused(k)

DirectoryClientInv ==
    /\ DirectoryClientTypeOK
    /\ exposed = {}
    /\ \A c \in SignIns : Sound(signIn[c])

\* A step of one sign-in leaves the others, the entries and the settings alone.
LEMMA OneSignIn ==
    ASSUME DirectoryClientInv, NEW c \in SignIns, NEW k \in SignInRecords, Sound(k),
           Goes(c, k), exposed' = {}, UNCHANGED <<settings, person, changes>>
    PROVE  DirectoryClientInv'
<1>1. DirectoryClientTypeOK'
  BY DEF DirectoryClientInv, DirectoryClientTypeOK, Goes
<1>2. ASSUME NEW d \in SignIns
      PROVE  Sound(signIn[d])'
  <2>1. signIn'[d] = IF d = c THEN k ELSE signIn[d]
    BY DEF DirectoryClientInv, DirectoryClientTypeOK, Goes
  <2>2. Sound(signIn'[d])
    BY <2>1 DEF DirectoryClientInv
  <2> QED
    BY <2>2 DEF Sound, Progress, Proved, Blamed, Excused, Direct, Named, Holders, Matching
<1> QED
  BY <1>1, <1>2 DEF DirectoryClientInv

\* The end of a sign-in: only what is said of verdicts is left to show.
LEMMA LastStep ==
    ASSUME DirectoryClientInv, NEW c \in SignIns, NEW k \in SignInRecords,
           NEW verdict \in {"ok", "invalid", "unavailable", "misconfigured"},
           Answered(c, k, verdict), exposed' = {}, UNCHANGED <<settings, person, changes>>,
           verdict = "ok" => /\ k.found \in Persons
                             /\ k.proved = k.found \/ (Direct /\ k.missed),
           Blamed([k EXCEPT !.verdict = verdict]), Excused([k EXCEPT !.verdict = verdict])
    PROVE  DirectoryClientInv'
<1> DEFINE last == [k EXCEPT !.at = "done", !.channel = "closed", !.verdict = verdict]
           shown == [k EXCEPT !.verdict = verdict]
<1>1. last \in SignInRecords
  BY DEF SignInRecords
<1>2. /\ last.at = "done" /\ last.verdict = verdict /\ last.name = k.name /\ last.typed = k.typed
      /\ last.found = k.found /\ last.proved = k.proved /\ last.missed = k.missed
  BY DEF SignInRecords
<1>3. /\ shown.verdict = verdict /\ shown.name = k.name /\ shown.typed = k.typed
      /\ shown.missed = k.missed
  BY DEF SignInRecords
<1>4. Goes(c, last)
  BY DEF Answered
<1>5. Blamed(shown) /\ Excused(shown)
  OBVIOUS
<1> HIDE DEF last, shown
<1>6. Progress(last)
  BY <1>2 DEF Progress, UnderWay
<1>7. Proved(last)
  BY <1>2 DEF Proved
<1>8. Blamed(last)
  BY <1>2, <1>3, <1>5 DEF Blamed
<1>9. Excused(last)
  BY <1>2, <1>3, <1>5 DEF Excused
<1> QED
  BY <1>1, <1>4, <1>6, <1>7, <1>8, <1>9, OneSignIn DEF Sound

LEMMA NothingExposed ==
    ASSUME DirectoryClientInv, NEW c \in SignIns, signIn[c].at \in {"connected", "found"}, Sends(c)
    PROVE  exposed' = {}
BY DEF DirectoryClientInv, Sound, Progress, Sends

\* A sign-in that goes on has no verdict, and what is known of it is Progress.
LEMMA NextLeg ==
    ASSUME DirectoryClientInv, NEW c \in SignIns, NEW k \in SignInRecords, Progress(k),
           k.verdict = "none", Goes(c, k), exposed' = {}, UNCHANGED <<settings, person, changes>>
    PROVE  DirectoryClientInv'
BY OneSignIn DEF Sound, Proved, Blamed, Excused

-----------------------------------------------------------------------------
LEMMA BeginStep ==
    ASSUME DirectoryClientInv, NEW c \in SignIns, NEW name \in TypedNames,
           NEW typed \in Passwords \cup {Empty}, Authenticate(c, name, typed)
    PROVE  DirectoryClientInv'
<1> DEFINE k == [NoSignIn EXCEPT !.name = name, !.typed = typed]
<1>1. /\ k \in SignInRecords /\ k.name = name /\ k.typed = typed /\ k.verdict = "none"
      /\ ~k.missed /\ k.at = "idle"
  BY DEF NoSignIn, SignInRecords, TypedNames
<1>2. exposed' = {} /\ UNCHANGED <<settings, person, changes>>
  BY DEF Authenticate, DirectoryClientInv
<1>3. /\ settings \in Settings /\ (settings.scheme = "ldaps" \/ settings.startTls)
  BY DEF DirectoryClientInv, DirectoryClientTypeOK, Startable, Settings
<1>4. CASE RefusedAtOnce(name, typed)
  <2>1. Answered(c, k, "invalid")
    BY <1>4 DEF Authenticate
  <2> DEFINE shown == [k EXCEPT !.verdict = "invalid"]
  <2>2. shown.name = name /\ shown.typed = typed /\ shown.verdict = "invalid"
    BY <1>1 DEF SignInRecords
  <2> HIDE DEF k, shown
  <2>3. Blamed(shown) /\ Excused(shown)
    BY <1>4, <2>2 DEF Blamed, Excused
  <2> QED
    BY <1>1, <1>2, <2>1, <2>3, LastStep DEF shown
<1>5. CASE ~RefusedAtOnce(name, typed) /\ settings.trusted
  <2> DEFINE on == [k EXCEPT !.at = "connecting"]
  <2>1. Goes(c, on)
    BY <1>3, <1>5 DEF Authenticate
  <2>2. /\ on \in SignInRecords /\ on.at = "connecting" /\ on.name = name /\ on.typed = typed
        /\ on.verdict = "none"
    BY <1>1 DEF SignInRecords
  <2> HIDE DEF k, on
  <2>3. Progress(on)
    BY <1>5, <2>2 DEF Progress
  <2> QED
    BY <1>2, <2>1, <2>2, <2>3, NextLeg
<1>6. CASE ~RefusedAtOnce(name, typed) /\ ~settings.trusted
  <2>1. Answered(c, k, "misconfigured")
    BY <1>6 DEF Authenticate
  <2> DEFINE shown == [k EXCEPT !.verdict = "misconfigured"]
  <2>2. shown.verdict = "misconfigured"
    BY <1>1 DEF SignInRecords
  <2> HIDE DEF k, shown
  <2>3. Blamed(shown) /\ Excused(shown)
    BY <1>6, <2>2 DEF Blamed, Excused
  <2> QED
    BY <1>1, <1>2, <2>1, <2>3, LastStep DEF shown
<1> QED
  BY <1>4, <1>5, <1>6

LEMMA ConnectStep ==
    ASSUME DirectoryClientInv, NEW c \in SignIns, Connect(c)
    PROVE  DirectoryClientInv'
<1> DEFINE on == [signIn[c] EXCEPT !.at = "connected", !.channel = "tls"]
<1>1. /\ signIn[c] \in SignInRecords /\ signIn[c].at = "connecting" /\ Progress(signIn[c])
      /\ signIn[c].verdict = "none"
  BY DEF Connect, DirectoryClientInv, DirectoryClientTypeOK, Sound, Progress
<1>2. settings.scheme = "ldaps" \/ settings.startTls
  BY DEF DirectoryClientInv, DirectoryClientTypeOK, Startable, Settings
<1>3. Goes(c, on) /\ exposed' = {} /\ UNCHANGED <<settings, person, changes>>
  BY <1>2 DEF Connect, DirectoryClientInv
<1>4. /\ on \in SignInRecords /\ on.at = "connected" /\ on.channel = "tls"
      /\ on.name = signIn[c].name /\ on.typed = signIn[c].typed /\ on.verdict = "none"
  BY <1>1 DEF SignInRecords
<1> HIDE DEF on
<1>5. Progress(on)
  BY <1>1, <1>4 DEF Progress, UnderWay
<1> QED
  BY <1>3, <1>4, <1>5, NextLeg

LEMMA ServiceStep ==
    ASSUME DirectoryClientInv, NEW c \in SignIns, BindServiceAccount(c)
    PROVE  DirectoryClientInv'
<1> DEFINE k == signIn[c]
<1>1. /\ k \in SignInRecords /\ k.at = "connected" /\ ~Direct /\ Progress(k) /\ k.verdict = "none"
      /\ Sends(c) /\ UNCHANGED <<settings, person, changes>>
  BY DEF BindServiceAccount, DirectoryClientInv, DirectoryClientTypeOK, Sound, Progress
<1>2. exposed' = {}
  BY <1>1, NothingExposed
<1>3. CASE settings.service = "right"
  <2> DEFINE on == [k EXCEPT !.at = "bound"]
  <2>1. Goes(c, on)
    BY <1>3 DEF BindServiceAccount
  <2>2. /\ on \in SignInRecords /\ on.at = "bound" /\ on.channel = k.channel
        /\ on.name = k.name /\ on.typed = k.typed /\ on.verdict = "none"
    BY <1>1 DEF SignInRecords
  <2> HIDE DEF k, on
  <2>3. Progress(on)
    BY <1>1, <1>3, <2>2 DEF Progress, UnderWay
  <2> QED
    BY <1>1, <1>2, <2>1, <2>2, <2>3, NextLeg
<1>4. CASE settings.service # "right"
  <2>1. Answered(c, k, "misconfigured") /\ settings.service = "wrong"
    BY <1>1, <1>4 DEF BindServiceAccount, Direct, DirectoryClientInv, DirectoryClientTypeOK, Settings
  <2> DEFINE shown == [k EXCEPT !.verdict = "misconfigured"]
  <2>2. shown.verdict = "misconfigured"
    BY <1>1 DEF SignInRecords
  <2> HIDE DEF k, shown
  <2>3. Blamed(shown) /\ Excused(shown)
    BY <2>1, <2>2 DEF Blamed, Excused
  <2> QED
    BY <1>1, <1>2, <2>1, <2>3, LastStep DEF shown
<1> QED
  BY <1>3, <1>4

LEMMA FindStep ==
    ASSUME DirectoryClientInv, NEW c \in SignIns, FindPerson(c)
    PROVE  DirectoryClientInv'
<1> DEFINE k == signIn[c]
           listed == Matching(AccountNameOf(k.name))
<1>1. /\ k \in SignInRecords /\ k.at = "bound" /\ ~Direct /\ Progress(k) /\ k.verdict = "none"
      /\ UNCHANGED <<settings, person, changes>> /\ exposed' = {}
  BY DEF FindPerson, DirectoryClientInv, DirectoryClientTypeOK, Sound, Progress
<1>2. settings.service = "right" /\ settings.trusted
  BY <1>1 DEF Progress, UnderWay
<1>3. CASE ~settings.base /\ Answered(c, k, "misconfigured")
  <2> DEFINE shown == [k EXCEPT !.verdict = "misconfigured"]
  <2>1. shown.verdict = "misconfigured"
    BY <1>1 DEF SignInRecords
  <2> HIDE DEF k, shown
  <2>2. Blamed(shown) /\ Excused(shown)
    BY <1>3, <2>1 DEF Blamed, Excused
  <2> QED
    BY <1>1, <1>3, <2>2, LastStep DEF shown
<1>4. ASSUME NEW p \in listed, listed = {p}, Goes(c, [k EXCEPT !.at = "found", !.found = p])
      PROVE  DirectoryClientInv'
  <2> DEFINE on == [k EXCEPT !.at = "found", !.found = p]
  <2>1. p \in Persons
    BY DEF Matching
  <2>2. /\ on \in SignInRecords /\ on.at = "found" /\ on.found = p /\ on.channel = k.channel
        /\ on.name = k.name /\ on.typed = k.typed /\ on.verdict = "none"
    BY <1>1, <2>1 DEF SignInRecords
  <2>3. Goes(c, on)
    BY <1>4
  <2>4. Matching(AccountNameOf(on.name)) = {p}
    BY <1>4, <2>2
  <2> HIDE DEF k, on
  <2>5. Progress(on)
    BY <1>1, <1>2, <2>1, <2>2, <2>4 DEF Progress, UnderWay
  <2> QED
    BY <1>1, <2>2, <2>3, <2>5, NextLeg
<1>5. CASE settings.base /\ (\A p \in listed : listed # {p}) /\ Answered(c, k, "invalid")
  <2> DEFINE shown == [k EXCEPT !.verdict = "invalid"]
  <2>1. shown.verdict = "invalid" /\ shown.name = k.name
    BY <1>1 DEF SignInRecords
  <2>2. Named(shown.name) = {}
    BY <1>1, <1>5, <2>1 DEF Named
  <2> HIDE DEF k, shown
  <2>3. Blamed(shown) /\ Excused(shown)
    BY <1>2, <2>1, <2>2 DEF Blamed, Excused
  <2> QED
    BY <1>1, <1>5, <2>3, LastStep DEF shown
<1> QED
  BY <1>3, <1>4, <1>5 DEF FindPerson

LEMMA PersonStep ==
    ASSUME DirectoryClientInv, NEW c \in SignIns, BindPerson(c)
    PROVE  DirectoryClientInv'
<1> DEFINE k == signIn[c]
<1>1. /\ k \in SignInRecords /\ k.at = "found" /\ Progress(k) /\ k.verdict = "none"
      /\ Sends(c) /\ UNCHANGED <<settings, person, changes>>
  BY DEF BindPerson, DirectoryClientInv, DirectoryClientTypeOK, Sound, Progress
<1>2. exposed' = {}
  BY <1>1, NothingExposed
<1>3. /\ ~Direct /\ k.found \in Persons /\ settings.service = "right" /\ settings.trusted
      /\ k.typed # Empty
      /\ k.missed \/ Named(k.name) = {k.found}
  BY <1>1 DEF Progress, UnderWay, RefusedAtOnce, Named
<1>4. CASE Accepts(k.found, k.typed)
  <2> DEFINE last == [k EXCEPT !.proved = Proves(k.found, k.typed)]
             verdict == IF person[k.found].id THEN "ok" ELSE "misconfigured"
             shown == [last EXCEPT !.verdict = verdict]
  <2>1. Answered(c, last, verdict)
    BY <1>4 DEF BindPerson
  <2>2. Proves(k.found, k.typed) = k.found /\ person[k.found].password = k.typed
    BY <1>3, <1>4 DEF Proves, Accepts
  <2>3. /\ last \in SignInRecords /\ last.found = k.found /\ last.proved = k.found
        /\ shown.verdict = verdict /\ shown.name = k.name /\ shown.typed = k.typed
        /\ shown.missed = k.missed
    BY <1>1, <1>3, <2>2 DEF SignInRecords
  <2> HIDE DEF k, last, shown
  <2>4. Blamed(shown)
    BY <2>3 DEF Blamed
  <2>5. Excused(shown)
    BY <1>3, <2>2, <2>3 DEF Excused
  <2>6. last.found \in Persons /\ last.proved = last.found
    BY <1>3, <2>3
  <2> QED
    BY <1>1, <1>2, <2>1, <2>3, <2>4, <2>5, <2>6, LastStep DEF shown
<1>5. CASE ~Accepts(k.found, k.typed)
  <2> DEFINE shown == [k EXCEPT !.verdict = "invalid"]
  <2>1. Answered(c, k, "invalid")
    BY <1>5 DEF BindPerson
  <2>2. /\ shown.verdict = "invalid" /\ shown.name = k.name /\ shown.typed = k.typed
        /\ shown.missed = k.missed
    BY <1>1 DEF SignInRecords
  <2>3. person[k.found].password # k.typed
    BY <1>5 DEF Accepts
  <2> HIDE DEF k, shown
  <2>4. Blamed(shown) /\ Excused(shown)
    BY <1>3, <2>2, <2>3 DEF Blamed, Excused
  <2> QED
    BY <1>1, <1>2, <2>1, <2>4, LastStep DEF shown
<1> QED
  BY <1>4, <1>5

LEMMA PrincipalStep ==
    ASSUME DirectoryClientInv, NEW c \in SignIns, BindPrincipal(c)
    PROVE  DirectoryClientInv'
<1> DEFINE k == signIn[c]
           holders == Holders(Principal(k.name))
<1>1. /\ k \in SignInRecords /\ k.at = "connected" /\ Direct /\ Progress(k) /\ k.verdict = "none"
      /\ Sends(c) /\ UNCHANGED <<settings, person, changes>>
  BY DEF BindPrincipal, DirectoryClientInv, DirectoryClientTypeOK, Sound, Progress
<1>2. exposed' = {}
  BY <1>1, NothingExposed
<1>3. settings.service = "none" /\ settings.trusted /\ k.typed # Empty /\ k.channel = "tls"
  BY <1>1 DEF Progress, UnderWay, Direct, RefusedAtOnce
<1>4. ASSUME NEW p \in holders, holders = {p}, Accepts(p, k.typed),
             Goes(c, [k EXCEPT !.at = "bound", !.proved = Proves(p, k.typed)])
      PROVE  DirectoryClientInv'
  <2> DEFINE on == [k EXCEPT !.at = "bound", !.proved = Proves(p, k.typed)]
  <2>1. p \in Persons /\ Proves(p, k.typed) = p /\ person[p].password = k.typed
    BY <1>3, <1>4 DEF Holders, Proves, Accepts
  <2>2. /\ on \in SignInRecords /\ on.at = "bound" /\ on.proved = p /\ on.channel = k.channel
        /\ on.name = k.name /\ on.typed = k.typed /\ on.verdict = "none"
    BY <1>1, <2>1 DEF SignInRecords
  <2>3. Goes(c, on)
    BY <1>4
  <2>4. Holders(Principal(on.name)) = {p}
    BY <1>4, <2>2
  <2> HIDE DEF k, on
  <2>5. Progress(on)
    BY <1>1, <1>3, <2>1, <2>2, <2>4 DEF Progress, UnderWay
  <2> QED
    BY <1>1, <1>2, <2>2, <2>3, <2>5, NextLeg
<1>5. CASE (\A p \in holders : holders = {p} => ~Accepts(p, k.typed)) /\ Answered(c, k, "invalid")
  <2> DEFINE shown == [k EXCEPT !.verdict = "invalid"]
  <2>1. /\ shown.verdict = "invalid" /\ shown.name = k.name /\ shown.typed = k.typed
    BY <1>1 DEF SignInRecords
  <2>2. \A p \in Named(k.name) : person[p].password # k.typed
    BY <1>1, <1>5 DEF Named, Accepts
  <2> HIDE DEF k, shown
  <2>3. Blamed(shown) /\ Excused(shown)
    BY <1>3, <2>1, <2>2 DEF Blamed, Excused
  <2> QED
    BY <1>1, <1>2, <1>5, <2>3, LastStep DEF shown
<1> QED
  BY <1>4, <1>5 DEF BindPrincipal

LEMMA OwnEntryStep ==
    ASSUME DirectoryClientInv, NEW c \in SignIns, ReadOwnEntry(c)
    PROVE  DirectoryClientInv'
<1> DEFINE k == signIn[c]
           principal == Principal(k.name)
           listed == Matching(principal)
           own == {p \in listed : listed = {p} /\ EntryIsPrincipal(p, principal) /\ person[p].id}
<1>1. /\ k \in SignInRecords /\ k.at = "bound" /\ Direct /\ Progress(k) /\ k.verdict = "none"
      /\ UNCHANGED <<settings, person, changes>> /\ exposed' = {}
  BY DEF ReadOwnEntry, DirectoryClientInv, DirectoryClientTypeOK, Sound, Progress
<1>2. /\ k.proved \in Persons
      /\ k.missed \/ (Holders(principal) = {k.proved} /\ person[k.proved].password = k.typed)
  BY <1>1 DEF Progress
<1>3. ASSUME NEW p \in own, Answered(c, [k EXCEPT !.found = p], "ok")
      PROVE  DirectoryClientInv'
  <2> DEFINE last == [k EXCEPT !.found = p]
             shown == [last EXCEPT !.verdict = "ok"]
  <2>1. p \in Persons /\ p \in Holders(principal)
    BY DEF Matching, Holders, EntryIsPrincipal
  <2>2. k.proved = p \/ k.missed
    BY <1>2, <2>1
  <2>3. /\ last \in SignInRecords /\ last.found = p /\ last.proved = k.proved
        /\ last.missed = k.missed /\ shown.verdict = "ok"
    BY <1>1, <2>1 DEF SignInRecords
  <2>4. Answered(c, last, "ok")
    BY <1>3
  <2> HIDE DEF k, last, shown
  <2>5. Blamed(shown) /\ Excused(shown)
    BY <2>3 DEF Blamed, Excused
  <2>6. last.found \in Persons /\ (last.proved = last.found \/ (Direct /\ last.missed))
    BY <1>1, <2>1, <2>2, <2>3
  <2> QED
    BY <1>1, <2>3, <2>4, <2>5, <2>6, LastStep DEF shown
<1>4. CASE (settings.base => own = {}) /\ Answered(c, k, "misconfigured")
  <2> DEFINE shown == [k EXCEPT !.verdict = "misconfigured"]
  <2>1. /\ shown.verdict = "misconfigured" /\ shown.name = k.name /\ shown.typed = k.typed
        /\ shown.missed = k.missed
    BY <1>1 DEF SignInRecords
  <2>2. ASSUME settings.base, ~k.missed
        PROVE  \E p \in Named(k.name) : /\ person[p].password = k.typed
                                        /\ ~person[p].id \/ listed # {p}
    <3>1. k.proved \in Named(k.name) /\ person[k.proved].upn = principal
      BY <1>1, <1>2, <2>2 DEF Named, Holders
    <3>2. ~person[k.proved].id \/ listed # {k.proved}
      BY <1>4, <2>2, <3>1 DEF EntryIsPrincipal
    <3> QED
      BY <1>2, <2>2, <3>1, <3>2
  <2> HIDE DEF k, shown
  <2>3. Blamed(shown) /\ Excused(shown)
    BY <1>1, <2>1, <2>2 DEF Blamed, Excused
  <2> QED
    BY <1>1, <1>4, <2>3, LastStep DEF shown
<1> QED
  BY <1>3, <1>4 DEF ReadOwnEntry

LEMMA LossStep ==
    ASSUME DirectoryClientInv, NEW c \in SignIns, LoseConnection(c)
    PROVE  DirectoryClientInv'
<1> DEFINE k == signIn[c]
           shown == [k EXCEPT !.verdict = "unavailable"]
<1>1. /\ k \in SignInRecords /\ Answered(c, k, "unavailable")
      /\ UNCHANGED <<settings, person, changes>> /\ exposed' = {}
  BY DEF LoseConnection, DirectoryClientInv, DirectoryClientTypeOK
<1>2. shown.verdict = "unavailable"
  BY <1>1 DEF SignInRecords
<1> HIDE DEF k, shown
<1>3. Blamed(shown) /\ Excused(shown)
  BY <1>2 DEF Blamed, Excused
<1> QED
  BY <1>1, <1>3, LastStep DEF shown

\* What an entry said may no longer hold, and every sign-in under way, or just
\* answered, has missed it.
LEMMA EntryStep ==
    ASSUME DirectoryClientInv, NEW p \in Persons, NEW entry \in EntryInputs[p], ChangeEntry(p, entry)
    PROVE  DirectoryClientInv'
<1>1. /\ changes \in 0 .. MaxChanges /\ changes < MaxChanges /\ changes' = changes + 1
      /\ person' = [person EXCEPT ![p] = entry] /\ UNCHANGED <<settings, exposed>>
  BY DEF ChangeEntry, DirectoryClientInv, DirectoryClientTypeOK
<1>2. changes' \in 0 .. MaxChanges
  BY <1>1, ClientAssumption
<1>3. entry \in Entries
  BY ClientAssumption
<1>4. person' \in [Persons -> Entries]
  BY <1>1, <1>3 DEF DirectoryClientInv, DirectoryClientTypeOK
<1>5. ASSUME NEW c \in SignIns
      PROVE  signIn'[c] \in SignInRecords /\ Sound(signIn[c])'
  <2> DEFINE k == signIn[c]
             late == [k EXCEPT !.missed = TRUE]
  <2>1. k \in SignInRecords /\ Sound(k)
    BY DEF DirectoryClientInv, DirectoryClientTypeOK
  <2>2. CASE k.at = "idle"
    <3>1. signIn'[c] = k
      BY <2>2 DEF ChangeEntry
    <3> HIDE DEF k
    <3>2. k.verdict = "none"
      BY <2>1, <2>2 DEF Sound, Progress
    <3> QED
      BY <2>1, <2>2, <3>1, <3>2 DEF Sound, Progress, Proved, Blamed, Excused, UnderWay
  <2>3. CASE k.at # "idle"
    <3>1. signIn'[c] = late
      BY <2>3 DEF ChangeEntry
    <3>2. /\ late \in SignInRecords /\ late.missed /\ late.at = k.at /\ late.name = k.name
          /\ late.typed = k.typed /\ late.channel = k.channel /\ late.found = k.found
          /\ late.proved = k.proved /\ late.verdict = k.verdict
      BY <2>1 DEF SignInRecords
    <3> HIDE DEF k, late
    <3>3. Progress(signIn[c])'
      BY <1>1, <2>1, <3>1, <3>2 DEF Sound, Progress, UnderWay, Direct
    <3>4. Proved(signIn[c])'
      BY <1>1, <2>1, <3>1, <3>2 DEF Sound, Proved, Direct
    <3>5. Blamed(signIn[c])'
      BY <1>1, <2>1, <3>1, <3>2 DEF Sound, Blamed
    <3>6. Excused(signIn[c])'
      BY <1>1, <2>1, <3>1, <3>2 DEF Sound, Excused
    <3> QED
      BY <3>1, <3>2, <3>3, <3>4, <3>5, <3>6 DEF Sound
  <2> QED
    BY <2>2, <2>3
<1>6. signIn' \in [SignIns -> SignInRecords]
  BY <1>5 DEF ChangeEntry
<1>7. DirectoryClientTypeOK'
  BY <1>1, <1>2, <1>4, <1>6 DEF DirectoryClientInv, DirectoryClientTypeOK
<1> QED
  BY <1>1, <1>5, <1>7 DEF DirectoryClientInv

LEMMA DirectoryClientStep == DirectoryClientInv /\ [DirectoryClientNext]_directoryClientVars
                                => DirectoryClientInv'
<1> SUFFICES ASSUME DirectoryClientInv, [DirectoryClientNext]_directoryClientVars
             PROVE  DirectoryClientInv'
  OBVIOUS
<1>1. CASE UNCHANGED directoryClientVars
  BY <1>1 DEF directoryClientVars, DirectoryClientInv, DirectoryClientTypeOK, Sound, Progress, Proved,
        Blamed, Excused, UnderWay, Direct, Named, Matching, Holders
<1> QED
  BY <1>1, BeginStep, ConnectStep, ServiceStep, FindStep, PersonStep, PrincipalStep, OwnEntryStep,
     LossStep, EntryStep DEF DirectoryClientNext

LEMMA DirectoryClientBegins == DirectoryClientInit => DirectoryClientInv
<1> SUFFICES ASSUME DirectoryClientInit
             PROVE  DirectoryClientInv
  OBVIOUS
<1>1. /\ NoSignIn \in SignInRecords /\ NoSignIn.at = "idle" /\ NoSignIn.verdict = "none"
  BY DEF NoSignIn, SignInRecords, TypedNames
<1> HIDE DEF NoSignIn
<1>2. Sound(NoSignIn)
  BY <1>1 DEF Sound, Progress, Proved, Blamed, Excused, UnderWay
<1> QED
  BY <1>1, <1>2, ClientAssumption DEF DirectoryClientInit, DirectoryClientInv, DirectoryClientTypeOK

LEMMA DirectoryClientAlways == DirectoryClientSpec => []DirectoryClientInv
BY DirectoryClientBegins, DirectoryClientStep, PTL DEF DirectoryClientSpec

(***************************************************************************)
(* Whoever is signed in by the directory has proved the password of the    *)
(* person returned, and no password was ever sent in the clear: of         *)
(* authenticate, with either way of binding.                               *)
(***************************************************************************)
THEOREM WhoSignsInHasProved == DirectoryClientSpec => []IdentityIsProved
<1>1. DirectoryClientInv => IdentityIsProved
  BY DEF DirectoryClientInv, Sound, Proved, IdentityIsProved
<1> QED
  BY <1>1, DirectoryClientAlways, PTL

(***************************************************************************)
(* Only a wrong password, or a name that stands for nobody or for several, *)
(* is answered as one: of classifyDirectoryError and the way each step of  *)
(* authenticate uses it.                                                   *)
(***************************************************************************)
THEOREM OnlyWrongPasswordsAreBlamed == DirectoryClientSpec => []FaultsAreNotBlamed
<1>1. DirectoryClientInv => FaultsAreNotBlamed
  BY DEF DirectoryClientInv, Sound, Blamed, Excused, FaultsAreNotBlamed
<1> QED
  BY <1>1, DirectoryClientAlways, PTL
=============================================================================
