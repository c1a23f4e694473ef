------------------------------- MODULE MCDesk -------------------------------
(* Small instances of the desk for TLC: its calls, and the pages they come     *)
(* from.  A behaviour is one of either, as its scene says.                     *)
EXTENDS Desk, DeskForms

CONSTANTS camera, tripod, charger, battery

VARIABLE scene

MCItems == {camera, tripod}
MCRequired == {camera}
Everything == [i \in MCItems |-> "INCLUDED"]
\* The camera may be missing; the tripod may stay behind, or be forgotten.
MCInputs == {Everything, [Everything EXCEPT ![camera] = "MISSING"],
             [Everything EXCEPT ![tripod] = "NOT_APPLICABLE"]}
\* The editor may sign the handover again; nobody but the engineer signs the
\* return.
MCMaxImages == [s \in Docs \X Roles |->
    IF s = <<"HANDOVER", "EDITOR">> THEN 2 ELSE IF s = <<"RETURN", "EDITOR">> THEN 0 ELSE 1]
\* The charger goes with the tripod, and may go out without it.
MCAttached == charger :> tripod

Interchangeable == Permutations(Desks)

\* Answers of every kind, each signature taken once; or captures that die and
\* are taken again, while the camera or the check is answered otherwise.
InScene ==
    /\ scene = "answers" => stray = {} /\ \A image \in files : image[3] = 1
    /\ scene = "captures" =>
         \A c \in Desks : call[c].op = "saveEquipment" => call[c].content.lines[tripod] = "INCLUDED"

DeskScenesInit ==
    /\ scene \in {"answers", "captures", "pages"}
    /\ DeskInit /\ DeskFormsInit
    /\ scene = "pages" \/ (paper = "HANDOVER" /\ world.state = "NONE")

DeskScenesNext ==
    /\ UNCHANGED scene
    /\ \/ scene # "pages" /\ DeskNext /\ InScene' /\ UNCHANGED deskFormVars
       \/ scene = "pages" /\ DeskFormsNext /\ UNCHANGED deskVars

DeskScenesSpec == DeskScenesInit /\ [][DeskScenesNext]_<<scene, deskVars, deskFormVars>>
=============================================================================
