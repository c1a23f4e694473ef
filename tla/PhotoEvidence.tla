----------------------------- MODULE PhotoEvidence -----------------------------
(***************************************************************************)
(* Photos of one inspection, or of one issue: files, and the rows that     *)
(* name them.  An upload is not a transaction: it checks, stores the file, *)
(* inserts the row and writes the audit entry one after the other; when    *)
(* the row or the entry fails the file is removed again.  The process may  *)
(* die between any two.                                                    *)
(***************************************************************************)
EXTENDS Integers, FiniteSets

CONSTANTS Photos,       \* one for each upload there may be
          PhotoLimit    \* PHOTO_LIMIT_PER_INSPECTION

ASSUME EvidenceAssumption == PhotoLimit \in Nat \ {0}

VARIABLES
    record,       \* what the photos belong to, and whether it is finished
    upload,       \* upload[p]: how far the upload of p has come
    stored,       \* photos whose file is in the store
    recorded,     \* photos that have a row
    unaudited,    \* (history) photos whose audit entry failed
    strays,       \* (history) photos whose upload died with the process
    sealed,       \* (history) photos recorded, or being uploaded, when the
                  \* record was last finished
    overlapped    \* (history) an upload was let in during another

evidenceVars == <<record, upload, stored, recorded, unaudited, strays, sealed, overlapped>>

EvidenceTypeOK ==
    /\ record \in [kind : {"inspection", "issue"}, finished : BOOLEAN]
    /\ upload \in [Photos -> {"none", "checked", "saved", "inserted", "ended"}]
    /\ stored \cup recorded \cup unaudited \cup strays \cup sealed \subseteq Photos
    /\ overlapped \in BOOLEAN

EvidenceInit ==
    /\ record \in [kind : {"inspection", "issue"}, finished : {FALSE}]
    /\ upload = [p \in Photos |-> "none"]
    /\ stored = {} /\ recorded = {} /\ unaudited = {} /\ strays = {} /\ sealed = {}
    /\ overlapped = FALSE

-----------------------------------------------------------------------------
\* Let in, and not recorded yet.
UnderWay == {p \in Photos : upload[p] \in {"checked", "saved"}}

\* (Fault) only that there is something to attach the photo to.
AcceptsAlways == TRUE

\* openInspection; for an issue, that it is not CLOSED.
AcceptsEvidence == ~record.finished

CheckUpload(p) ==
    /\ upload[p] = "none"
    /\ AcceptsEvidence
    /\ Cardinality(recorded) < PhotoLimit
    /\ upload' = [upload EXCEPT ![p] = "checked"]
    /\ overlapped' = (overlapped \/ UnderWay # {})
    /\ UNCHANGED <<record, stored, recorded, unaudited, strays, sealed>>

Proceed(p, from, to) ==
    /\ upload[p] = from
    /\ upload' = [upload EXCEPT ![p] = to]
    /\ UNCHANGED <<record, strays, sealed, overlapped>>

SavePhoto(p) ==
    /\ Proceed(p, "checked", "saved")
    /\ stored' = stored \cup {p}
    /\ UNCHANGED <<recorded, unaudited>>

\* attachment.create commits on its own, whatever became of the record.
InsertAttachment(p) ==
    /\ Proceed(p, "saved", "inserted")
    /\ recorded' = recorded \cup {p}
    /\ UNCHANGED <<stored, unaudited>>

InsertFails(p) ==
    /\ Proceed(p, "saved", "ended")
    /\ stored' = stored \ {p}
    /\ UNCHANGED <<recorded, unaudited>>

AuditUpload(p) == Proceed(p, "inserted", "ended") /\ UNCHANGED <<stored, recorded, unaudited>>

\* The audit entry fails: the file goes, and the row stays.
AuditFails(p) ==
    /\ Proceed(p, "inserted", "ended")
    /\ stored' = stored \ {p}
    /\ unaudited' = unaudited \cup {p}
    /\ UNCHANGED recorded

Crash ==
    /\ \E p \in Photos : upload[p] \notin {"none", "ended"}
    /\ strays' = strays \cup {p \in Photos : upload[p] = "saved"}
    /\ upload' = [p \in Photos |-> IF upload[p] = "none" THEN "none" ELSE "ended"]
    /\ UNCHANGED <<record, stored, recorded, unaudited, sealed, overlapped>>

\* The document is completed, the issue closed; an issue may be reopened.
FinishRecord ==
    /\ ~record.finished
    /\ record' = [record EXCEPT !.finished = TRUE]
    /\ sealed' = recorded \cup UnderWay
    /\ UNCHANGED <<upload, stored, recorded, unaudited, strays, overlapped>>

ReopenRecord ==
    /\ record.kind = "issue" /\ record.finished
    /\ record' = [record EXCEPT !.finished = FALSE]
    /\ UNCHANGED <<upload, stored, recorded, unaudited, strays, sealed, overlapped>>

EvidenceNext ==
    \/ \E p \in Photos : \/ CheckUpload(p) \/ SavePhoto(p) \/ InsertAttachment(p) \/ InsertFails(p)
                         \/ AuditUpload(p) \/ AuditFails(p)
    \/ Crash \/ FinishRecord \/ ReopenRecord

EvidenceSpec == EvidenceInit /\ [][EvidenceNext]_evidenceVars

-----------------------------------------------------------------------------
(* Properties *)

\* Whatever fails and whenever the process dies: a row has its file unless its
\* audit entry failed, a file has its row or an upload under way unless the
\* upload died; a finished record gains no photo that was not let in before;
\* and the limit holds unless uploads overlapped (addInspectionPhoto,
\* addIssuePhoto).
EvidenceHolds ==
    /\ recorded \ stored \subseteq unaudited
    /\ stored \ recorded \subseteq UnderWay \cup strays
    /\ record.finished => recorded \subseteq sealed
    /\ overlapped \/ Cardinality(recorded) <= PhotoLimit
=============================================================================
