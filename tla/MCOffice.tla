------------------------------- MODULE MCOffice --------------------------------
(* Small instances of the components that share no state with each other: a    *)
(* behaviour is one of one component, the one its scene names.                 *)
EXTENDS EditorDirectory, Issues, Numbering, ChecklistTemplates, PhotoEvidence, LoginLimiter,
        Forms, Histories, Directory, TLC

CONSTANTS ann, bob, smith, jones, corp, partner, w1, w2

VARIABLE scene

MCYears == {2026, 2027}

MCKinds == {"booking", "kit", "asset", "accessory", "member", "editor", "category",
            "software", "item"}

\* Dubai, which never changes its clock; zones east and west of Greenwich on
\* the day they put it forward and on the day they put it back.
MCZones ==
    {[change |-> 480, before |-> z[1], after |-> z[2]] :
        z \in {<<240, 240>>, <<60, 120>>, <<120, 60>>, <<-300, -240>>, <<-240, -300>>}}

\* Readings on both sides of the change, and one inside the hour skipped or
\* repeated in some of them.
MCReadings == {180, 510, 570}

MCPersons == {ann, bob}

AnEntry(login, upn, mail) == [login |-> login, upn |-> upn, mail |-> mail,
                              listed |-> TRUE, id |-> TRUE, password |-> w1]

\* Ann is smith@corp; she may be elsewhere in the tree, have no id, or have
\* another password.  Bob may be called smith too, have her principal for his
\* address, or have it for his own; he has her password or another.
MCEntryInputs ==
    LET anns == AnEntry(smith, <<smith, corp>>, NoAddress)
        bobs == {AnEntry(jones, <<jones, corp>>, NoAddress),
                 AnEntry(smith, <<smith, partner>>, NoAddress),
                 AnEntry(jones, <<jones, corp>>, <<smith, corp>>),
                 AnEntry(jones, <<smith, corp>>, NoAddress)}
    IN  [p \in MCPersons |->
           IF p = ann
           THEN {anns, [anns EXCEPT !.listed = FALSE], [anns EXCEPT !.id = FALSE],
                 [anns EXCEPT !.password = w2], [anns EXCEPT !.upn = NoAddress]}
           ELSE bobs \cup {[b EXCEPT !.password = w2] : b \in bobs}]

Interchangeable == Permutations(DirectoryCalls)

\* The corporate directory while another scene plays.
DirectoryRests ==
    /\ settings = [scheme |-> "ldaps", startTls |-> FALSE, service |-> "none",
                   base |-> TRUE, trusted |-> TRUE]
    /\ person = [p \in Persons |-> CHOOSE entry \in EntryInputs[p] : TRUE]
    /\ signIn = [c \in SignIns |-> NoSignIn] /\ exposed = {} /\ changes = 0

OfficeInit ==
    /\ scene \in {"profiles", "issues", "numbering", "templates", "evidence", "limiter",
                  "forms", "histories", "directory"}
    /\ DirectoryInit /\ IssuesInit /\ NumberingInit /\ TemplatesInit /\ EvidenceInit
    /\ LimiterInit /\ FormsInit /\ HistoriesInit
    /\ scene = "numbering" \/ year = 2026
    /\ scene = "evidence" \/ record.kind = "issue"
    /\ zone.before = 240 \/ (scene = "forms" /\ kind = "booking")
    /\ scene = "forms" \/ kind = "kit"
    /\ scene = "histories" \/ past = {}
    /\ IF scene = "directory" THEN DirectoryClientInit ELSE DirectoryRests

OfficeNext ==
    /\ UNCHANGED scene
    /\ \/ /\ scene = "profiles" /\ DirectoryNext
          /\ UNCHANGED <<issueVars, numberVars, templateVars, evidenceVars,
                        limiterVars, formVars, historyVars, directoryClientVars>>
       \/ /\ scene = "issues" /\ IssuesNext
          /\ UNCHANGED <<directoryVars, numberVars, templateVars, evidenceVars,
                        limiterVars, formVars, historyVars, directoryClientVars>>
       \/ /\ scene = "numbering" /\ NumberingNext
          /\ UNCHANGED <<directoryVars, issueVars, templateVars, evidenceVars,
                        limiterVars, formVars, historyVars, directoryClientVars>>
       \/ /\ scene = "templates" /\ TemplatesNext
          /\ UNCHANGED <<directoryVars, issueVars, numberVars, evidenceVars,
                        limiterVars, formVars, historyVars, directoryClientVars>>
       \/ /\ scene = "evidence" /\ EvidenceNext
          /\ UNCHANGED <<directoryVars, issueVars, numberVars, templateVars,
                        limiterVars, formVars, historyVars, directoryClientVars>>
       \/ /\ scene = "limiter" /\ LimiterNext
          /\ UNCHANGED <<directoryVars, issueVars, numberVars, templateVars,
                        evidenceVars, formVars, historyVars, directoryClientVars>>
       \/ /\ scene = "forms" /\ FormsNext
          /\ UNCHANGED <<directoryVars, issueVars, numberVars, templateVars,
                        evidenceVars, limiterVars, historyVars, directoryClientVars>>
       \/ /\ scene = "histories" /\ HistoriesNext
          /\ UNCHANGED <<directoryVars, issueVars, numberVars, templateVars,
                        evidenceVars, limiterVars, formVars, directoryClientVars>>
       \/ /\ scene = "directory" /\ DirectoryClientNext
          /\ UNCHANGED <<directoryVars, issueVars, numberVars, templateVars,
                        evidenceVars, limiterVars, formVars, historyVars>>

OfficeSpec ==
    OfficeInit /\ [][OfficeNext]_<<scene, directoryVars, issueVars, numberVars, templateVars,
                                   evidenceVars, limiterVars, formVars, historyVars, directoryClientVars>>
=============================================================================
