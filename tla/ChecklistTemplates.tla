-------------------------- MODULE ChecklistTemplates --------------------------
(***************************************************************************)
(* Checklist templates: which of them are offered, which is the default,   *)
(* and the checks bookings copy from them.                                 *)
(*                                                                         *)
(* Calls are transactions at READ COMMITTED.  Making a template the        *)
(* default takes two statements: the first clears the rows that are the    *)
(* default when it starts, after waiting for those another call holds; the *)
(* second sets one row.  Names, texts and orders are left out, and a       *)
(* template has one check.                                                 *)
(***************************************************************************)
EXTENDS Integers, FiniteSets

CONSTANTS Templates, TemplateCalls, NoTemplate,
          MaxCrossedChanges      \* bound

ASSUME TemplatesAssumption == NoTemplate \notin Templates /\ MaxCrossedChanges \in Nat

VARIABLES
    template,          \* template[t]: the ChecklistTemplate row
    check,             \* check[t]: its check
    used,              \* templates whose check a booking has copied
    kitTemplate,       \* the template chosen for a kit
    change,            \* change[c]: the call under way
    crossedChanges     \* (history) how many calls wrote after another that
                       \* committed since they read

templateVars == <<template, check, used, kitTemplate, change, crossedChanges>>

NoRow    == [row |-> "NONE", active |-> FALSE, default |-> FALSE]
NoChange == [op |-> "none", at |-> "idle", template |-> NoTemplate, rows |-> {}, missed |-> FALSE]

ChangeOps == {"setChecklistTemplateActive", "setChecklistTemplateDefault", "removeChecklistItem"}

TemplatesTypeOK ==
    /\ template \in [Templates -> [row : {"NONE", "LIVE"}, active : BOOLEAN, default : BOOLEAN]]
    /\ check \in [Templates -> {"none", "listed", "removed"}]
    /\ used \subseteq Templates
    /\ kitTemplate \in Templates \cup {NoTemplate}
    /\ \A c \in TemplateCalls : /\ change[c].op \in ChangeOps \cup {"none"}
                                /\ change[c].at \in {"idle", "read", "clearing", "cleared"}
                                /\ change[c].rows \subseteq Templates
    /\ crossedChanges \in Nat

TemplatesInit ==
    /\ template = [t \in Templates |-> NoRow]
    /\ check = [t \in Templates |-> "none"]
    /\ used = {}
    /\ kitTemplate = NoTemplate
    /\ change = [c \in TemplateCalls |-> NoChange]
    /\ crossedChanges = 0

-----------------------------------------------------------------------------
Defaults == {t \in Templates : template[t].default}

\* Rows a call has written and not committed.
Held(c) == IF change[c].at = "cleared" THEN change[c].rows ELSE {}
LockedByOthers(c) == UNION {Held(d) : d \in TemplateCalls \ {c}}

ReadTemplate(c, t, op) ==
    /\ change[c] = NoChange
    /\ template[t].row = "LIVE"
    /\ change' = [change EXCEPT ![c] = [NoChange EXCEPT !.op = op, !.at = "read", !.template = t]]
    /\ UNCHANGED <<template, check, used, kitTemplate, crossedChanges>>

\* A call ends; the others that read before it ended have missed it.
ChangeEnds(c) ==
    /\ change' = [d \in TemplateCalls |->
                    IF d = c THEN NoChange
                    ELSE IF change[d] = NoChange THEN NoChange
                    ELSE [change[d] EXCEPT !.missed = TRUE]]
    /\ crossedChanges' = IF change[c].missed THEN crossedChanges + 1 ELSE crossedChanges

\* (Fault) any template can be put away.
ReadForDeactivateAny(c, t) ==
    template[t].active /\ ReadTemplate(c, t, "setChecklistTemplateActive")

\* The default template stays active.
ReadForDeactivate(c, t) ==
    /\ template[t].active /\ ~template[t].default
    /\ ReadTemplate(c, t, "setChecklistTemplateActive")

SetChecklistTemplateActive(c) ==
    LET t == change[c].template IN
    /\ change[c].op = "setChecklistTemplateActive"
    /\ t \notin LockedByOthers(c)
    /\ template' = [template EXCEPT ![t].active = FALSE]
    /\ ChangeEnds(c)
    /\ UNCHANGED <<check, used, kitTemplate>>

\* Activating waits for nothing and refuses nothing.
Activate(t) ==
    /\ template[t].row = "LIVE" /\ ~template[t].active
    /\ template' = [template EXCEPT ![t].active = TRUE]
    /\ UNCHANGED <<check, used, kitTemplate, change, crossedChanges>>

CreateChecklistTemplate(t) ==
    /\ template[t].row = "NONE"
    /\ template' = [template EXCEPT ![t] = [row |-> "LIVE", active |-> TRUE, default |-> FALSE]]
    /\ UNCHANGED <<check, used, kitTemplate, change, crossedChanges>>

ReadForDefault(c, t) ==
    /\ template[t].active /\ ~template[t].default
    /\ ReadTemplate(c, t, "setChecklistTemplateDefault")

\* updateMany: the rows it will write are those that match when it starts.
StartClearing(c) ==
    /\ change[c].op = "setChecklistTemplateDefault" /\ change[c].at = "read"
    /\ change' = [change EXCEPT ![c].at = "clearing", ![c].rows = Defaults]
    /\ UNCHANGED <<template, check, used, kitTemplate, crossedChanges>>

\* Each is checked once more when its lock is had.
ClearDefaults(c) ==
    /\ change[c].at = "clearing"
    /\ change[c].rows \cap LockedByOthers(c) = {}
    /\ change' = [change EXCEPT ![c].at = "cleared", ![c].rows = @ \cap Defaults]
    /\ UNCHANGED <<template, check, used, kitTemplate, crossedChanges>>

SetChecklistTemplateDefault(c) ==
    LET k == change[c] IN
    /\ k.at = "cleared"
    /\ k.template \notin LockedByOthers(c)
    /\ template' = [t \in Templates |->
                      IF t = k.template THEN [template[t] EXCEPT !.default = TRUE]
                      ELSE IF t \in k.rows THEN [template[t] EXCEPT !.default = FALSE]
                      ELSE template[t]]
    /\ ChangeEnds(c)
    /\ UNCHANGED <<check, used, kitTemplate>>

-----------------------------------------------------------------------------
(* Checks, kits and bookings *)

AddChecklistItem(t) ==
    /\ template[t].row = "LIVE" /\ check[t] = "none"
    /\ check' = [check EXCEPT ![t] = "listed"]
    /\ UNCHANGED <<template, used, kitTemplate, change, crossedChanges>>

\* A check that a booking has copied stays.
ReadForRemoveItem(c, t) ==
    /\ check[t] = "listed" /\ t \notin used
    /\ ReadTemplate(c, t, "removeChecklistItem")

RemoveChecklistItem(c) ==
    /\ change[c].op = "removeChecklistItem"
    /\ check' = [check EXCEPT ![change[c].template] = "removed"]
    /\ ChangeEnds(c)
    /\ UNCHANGED <<template, used, kitTemplate>>

\* setKitChecklistTemplate: an active one, or none.
ChooseForKit(t) ==
    /\ t # kitTemplate
    /\ t # NoTemplate => template[t].row = "LIVE" /\ template[t].active
    /\ kitTemplate' = t
    /\ UNCHANGED <<template, check, used, change, crossedChanges>>

\* getChecklistTemplateForKit: the kit's own while it is active, else a default.
TemplatesForKit ==
    IF kitTemplate # NoTemplate /\ template[kitTemplate].active THEN {kitTemplate}
    ELSE {t \in Defaults : template[t].active}

\* A new booking copies its checks; a check that is gone by then is refused by
\* the foreign key.
CopyChecklist(t) ==
    /\ t \in TemplatesForKit /\ check[t] = "listed" /\ t \notin used
    /\ used' = used \cup {t}
    /\ change' = [c \in TemplateCalls |->
                    IF change[c].op = "removeChecklistItem" /\ change[c].template = t
                    THEN [change[c] EXCEPT !.missed = TRUE] ELSE change[c]]
    /\ UNCHANGED <<template, check, kitTemplate, crossedChanges>>

TemplatesStep ==
    \/ \E c \in TemplateCalls :
         \/ \E t \in Templates : ReadForDeactivate(c, t) \/ ReadForDefault(c, t) \/ ReadForRemoveItem(c, t)
         \/ SetChecklistTemplateActive(c) \/ StartClearing(c) \/ ClearDefaults(c)
         \/ SetChecklistTemplateDefault(c) \/ RemoveChecklistItem(c)
    \/ \E t \in Templates : \/ CreateChecklistTemplate(t) \/ Activate(t) \/ AddChecklistItem(t)
                            \/ ChooseForKit(t) \/ CopyChecklist(t)
    \/ ChooseForKit(NoTemplate)

TemplatesNext == crossedChanges <= MaxCrossedChanges /\ TemplatesStep

TemplatesSpec == TemplatesInit /\ [][TemplatesNext]_templateVars

-----------------------------------------------------------------------------
(* Properties *)

\* Unless calls crossed, one template at most is the default, it is offered, and
\* so every booking has a checklist to copy as soon as there is one; a check a
\* booking has copied is still in its template (setChecklistTemplateDefault,
\* setChecklistTemplateActive, removeChecklistItem).
DefaultIsUsable ==
    crossedChanges = 0 =>
        /\ \A t, o \in Defaults : t = o
        /\ Defaults # {} => TemplatesForKit # {}
        /\ \A t \in used : check[t] = "listed"
=============================================================================
