---------------------------- MODULE EditorDirectory ----------------------------
(***************************************************************************)
(* The editor directory: profiles that bookings and signatures point at,   *)
(* and the account an internal editor may have.                            *)
(*                                                                         *)
(* A call reads the profile, decides, and writes by primary key, at READ   *)
(* COMMITTED, over whatever was committed meanwhile; the database has only *)
(* the unique userId to decide a race.  Names, addresses and the staff id  *)
(* are left out.                                                           *)
(***************************************************************************)
EXTENDS Integers, FiniteSets

CONSTANTS Editors, People, DirectoryCalls, Nobody,
          MaxCrossedProfiles     \* bound

ASSUME DirectoryAssumption == Nobody \notin People /\ MaxCrossedProfiles \in Nat

VARIABLES
    profile,          \* profile[e]: the EditorProfile row
    engaged,          \* engaged[e]: the bookings (and signatures) it has
    disabled,         \* accounts that are DISABLED
    edit,             \* edit[c]: the call under way
    crossedProfiles   \* (history) profiles written by a call that read them, or
                      \* their bookings, before another was committed

directoryVars == <<profile, engaged, disabled, edit, crossedProfiles>>

NoProfile == [row |-> "NONE", external |-> FALSE, active |-> FALSE, account |-> Nobody]
NoEdit    == [op |-> "none", editor |-> Nobody, to |-> "none", missed |-> FALSE]

EditOps == {"updateEditor", "setEditorActive", "linkEditorUser", "unlinkEditorUser",
            "removeEditor", "createBooking", "reserveBooking"}

DirectoryTypeOK ==
    /\ profile \in [Editors -> [row : {"NONE", "LIVE", "REMOVED"}, external : BOOLEAN,
                                active : BOOLEAN, account : People \cup {Nobody}]]
    /\ engaged \in [Editors -> {"none", "draft", "live", "past"}]
    /\ disabled \subseteq People
    /\ \A c \in DirectoryCalls : edit[c].op \in EditOps \cup {"none"}
    /\ crossedProfiles \subseteq Editors

DirectoryInit ==
    /\ profile = [e \in Editors |-> NoProfile]
    /\ engaged = [e \in Editors |-> "none"]
    /\ disabled = {}
    /\ edit = [c \in DirectoryCalls |-> NoEdit]
    /\ crossedProfiles = {}

-----------------------------------------------------------------------------
(* Rules *)

Live(e) == profile[e].row = "LIVE"

\* (Fault) only what is going on now stands in the way.
EditorRemovableWhenIdle(e) == Live(e) /\ engaged[e] \notin {"draft", "live"}

\* editorRemovalBlocker: no booking and no signature, ever.
EditorRemovable(e) == Live(e) /\ engaged[e] = "none"

\* editorDeactivationBlocker: a draft is not live.
EditorDeactivatable(e) == Live(e) /\ engaged[e] # "live"

\* The unique userId; a removed profile has given its account back.
RefusedByUserIndex(e, a) == \E o \in Editors \ {e} : profile[o].account = a

\* userLinkBlocker.
Linkable(e, a) ==
    /\ Live(e) /\ ~profile[e].external
    /\ profile[e].account = Nobody
    /\ a \notin disabled
    /\ ~ \E o \in Editors \ {e} : profile[o].account = a

\* requireBookableEditor.
BookableProfile(e) == Live(e) /\ profile[e].active

-----------------------------------------------------------------------------
(* Calls *)

ReadProfile(c, e, op, to) ==
    /\ edit[c] = NoEdit
    /\ edit' = [edit EXCEPT ![c] = [NoEdit EXCEPT !.op = op, !.editor = e, !.to = to]]
    /\ UNCHANGED <<profile, engaged, disabled, crossedProfiles>>

\* An account has to go before its editor becomes external.
ReadForUpdateEditor(c, e, external) ==
    /\ Live(e) /\ profile[e].external # external
    /\ external => profile[e].account = Nobody
    /\ ReadProfile(c, e, "updateEditor", IF external THEN "EXTERNAL" ELSE "INTERNAL")

ReadForSetEditorActive(c, e) ==
    /\ Live(e)
    /\ profile[e].active => EditorDeactivatable(e)
    /\ ReadProfile(c, e, "setEditorActive", IF profile[e].active THEN "off" ELSE "on")

ReadForLinkEditorUser(c, e, a) ==
    Linkable(e, a) /\ ReadProfile(c, e, "linkEditorUser", a)

ReadForUnlinkEditorUser(c, e) ==
    /\ Live(e) /\ profile[e].account # Nobody
    /\ ReadProfile(c, e, "unlinkEditorUser", "none")

ReadForRemoveEditor(c, e) ==
    EditorRemovable(e) /\ ReadProfile(c, e, "removeEditor", "none")

ReadForBooking(c, e) ==
    /\ BookableProfile(e)
    /\ \/ engaged[e] \in {"none", "past"} /\ ReadProfile(c, e, "createBooking", "draft")
       \/ engaged[e] = "draft" /\ ReadProfile(c, e, "reserveBooking", "live")

\* What the write makes of the row there is by then.
Edited(k, row) ==
    CASE k.op = "updateEditor"     -> [row EXCEPT !.external = (k.to = "EXTERNAL")]
      [] k.op = "setEditorActive"  -> [row EXCEPT !.active = (k.to = "on")]
      [] k.op = "linkEditorUser"   -> [row EXCEPT !.account = k.to]
      [] k.op = "unlinkEditorUser" -> [row EXCEPT !.account = Nobody]
      [] k.op = "removeEditor"     -> [row EXCEPT !.row = "REMOVED", !.active = FALSE,
                                                  !.account = Nobody]
      [] OTHER                     -> row

WriteEdit(c) ==
    LET k == edit[c]  e == k.editor IN
    /\ k.op # "none"
    /\ IF k.op = "linkEditorUser" /\ RefusedByUserIndex(e, k.to)
       THEN /\ edit' = [edit EXCEPT ![c] = NoEdit]
            /\ UNCHANGED <<profile, engaged, crossedProfiles>>
       ELSE /\ profile' = [profile EXCEPT ![e] = Edited(k, @)]
            /\ engaged' = [engaged EXCEPT ![e] =
                             IF k.op \in {"createBooking", "reserveBooking"} THEN k.to ELSE @]
            /\ edit' = [d \in DirectoryCalls |->
                          IF d = c THEN NoEdit
                          ELSE IF edit[d].editor = e THEN [edit[d] EXCEPT !.missed = TRUE]
                          ELSE edit[d]]
            /\ crossedProfiles' = IF k.missed THEN crossedProfiles \cup {e} ELSE crossedProfiles
    /\ UNCHANGED disabled

\* createEditor: one row, so only the index can come in between.
CreateEditor(e, external, active, a) ==
    /\ profile[e].row = "NONE"
    /\ a # Nobody => ~external /\ a \notin disabled /\ ~RefusedByUserIndex(e, a)
    /\ profile' = [profile EXCEPT ![e] = [row |-> "LIVE", external |-> external,
                                          active |-> active, account |-> a]]
    /\ UNCHANGED <<engaged, disabled, edit, crossedProfiles>>

\* A booking is cancelled or comes back; an account is switched off or on.
CloseBooking(e) ==
    /\ engaged[e] \in {"draft", "live"}
    /\ engaged' = [engaged EXCEPT ![e] = "past"]
    /\ UNCHANGED <<profile, disabled, edit, crossedProfiles>>

SwitchAccount(a) ==
    /\ disabled' = IF a \in disabled THEN disabled \ {a} ELSE disabled \cup {a}
    /\ UNCHANGED <<profile, engaged, edit, crossedProfiles>>

DirectoryStep ==
    \/ \E c \in DirectoryCalls, e \in Editors :
         \/ \E external \in BOOLEAN : ReadForUpdateEditor(c, e, external)
         \/ ReadForSetEditorActive(c, e)
         \/ \E a \in People : ReadForLinkEditorUser(c, e, a)
         \/ ReadForUnlinkEditorUser(c, e)
         \/ ReadForRemoveEditor(c, e)
         \/ ReadForBooking(c, e)
    \/ \E c \in DirectoryCalls : WriteEdit(c)
    \/ \E e \in Editors :
         \/ \E external, active \in BOOLEAN, a \in People \cup {Nobody} :
              CreateEditor(e, external, active, a)
         \/ CloseBooking(e)
    \/ \E a \in People : SwitchAccount(a)

DirectoryNext == Cardinality(crossedProfiles) <= MaxCrossedProfiles /\ DirectoryStep

DirectorySpec == DirectoryInit /\ [][DirectoryNext]_directoryVars

-----------------------------------------------------------------------------
(* Properties *)

\* However calls race, an account speaks for one editor at most: an EDITOR's
\* own bookings hang on it (booking.readOwn).
OneProfilePerAccount ==
    \A e, o \in Editors : profile[e].account = profile[o].account /\ e # o
                              => profile[e].account = Nobody

\* Unless calls crossed on it: an external editor has no account, a removed one
\* has neither an account nor a history, and what is promised is promised to an
\* active one (updateEditor, linkEditorUser, removeEditor, setEditorActive and
\* the bookings' own check, together).
ProfilesConsistent ==
    /\ OneProfilePerAccount
    /\ \A e \in Editors \ crossedProfiles :
         /\ profile[e].external => profile[e].account = Nobody
         /\ profile[e].row = "REMOVED" => /\ ~profile[e].active /\ profile[e].account = Nobody
                                          /\ engaged[e] = "none"
         /\ engaged[e] = "live" => BookableProfile(e)
=============================================================================
