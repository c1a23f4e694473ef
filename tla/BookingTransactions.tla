------------------------ MODULE BookingTransactions -------------------------
(***************************************************************************)
(* The operations of BookingLifecycle on the bookings of one kit, taken    *)
(* apart into the statements of their database transactions, so that calls *)
(* of several people interleave.                                           *)
(*                                                                         *)
(* Most calls run READ COMMITTED: they read the row without a lock, decide,*)
(* and write by primary key, over whatever has been committed meanwhile.   *)
(* completeHandover and completeReturn run SERIALIZABLE: they read from a  *)
(* snapshot, lock the booking first, and fail when a row they write was    *)
(* changed after the snapshot.  A written row stays locked until the call  *)
(* commits; what it wrote is seen by nobody before.  A call may time out   *)
(* and roll back at any statement.  The database is modelled by what these *)
(* calls see of it.                                                        *)
(*                                                                         *)
(* Left out: refusals by facts read without a lock and never written here  *)
(* (the editor, the checklist, the equipment, the verdict on the answers). *)
(***************************************************************************)
EXTENDS BookingRules

CONSTANTS Bookings,    \* bookings of one kit
          Sessions,    \* calls that can be under way at once
          Colliding,   \* pairs of bookings whose windows overlap
          NoBooking

ASSUME TransactionAssumption ==
    /\ Colliding \subseteq Bookings \X Bookings
    /\ \A b, c \in Bookings : <<b, c>> \in Colliding => b # c /\ <<c, b>> \in Colliding
    /\ NoBooking \notin Bookings

VARIABLES
    status,      \* status[b]: Booking.status as committed
    kitStatus,   \* Kit.status as committed
    signed,      \* bookings whose HANDOVER inspection is completed and locked
    returnDoc,   \* returnDoc[b]: the live RETURN inspection
    call         \* call[s]: the call session s has under way

rows == <<status, kitStatus, signed, returnDoc>>
vars == <<rows, call>>

Target ==
    [reserveBooking |-> "RESERVED", returnToDraft |-> "DRAFT",
     markReadyForHandover |-> "READY_FOR_HANDOVER", revertReadyForHandover |-> "RESERVED",
     cancelBooking |-> "CANCELLED", startReturn |-> "RETURN_INSPECTION",
     completeHandover |-> "CHECKED_OUT", completeReturn |-> "COMPLETED"]

Completions   == {"completeHandover", "completeReturn"}
BookingOps    == DOMAIN Target \ Completions
KitStatuses   == {"AVAILABLE", "RESERVED", "CHECKED_OUT", "MAINTENANCE"}
DocPhases     == {"NONE", "IN_PROGRESS", "COMPLETED"}

\* at: "idle"; "read", it has read what it decides on; "locking", a completion
\* that waits for the booking's row; "booking", the booking is written; "kit",
\* the kit is to be written; "done", all is written; "failed", refused by the
\* database.  kitTo is what it writes to the kit, missed the rows changed
\* since its snapshot.
Idle == [op |-> "none", booking |-> NoBooking, at |-> "idle", saw |-> "ABSENT",
         kitTo |-> "none", missed |-> {}]

TypeOK ==
    /\ status \in [Bookings -> BookingStatuses]
    /\ kitStatus \in KitStatuses
    /\ signed \subseteq Bookings
    /\ returnDoc \in [Bookings -> DocPhases]
    /\ call \in [Sessions ->
          [op : DOMAIN Target \cup {"updateKit", "none"},
           booking : Bookings \cup {NoBooking},
           at : {"idle", "read", "locking", "booking", "kit", "done", "failed"},
           saw : BookingStatuses \cup {"ABSENT"},
           kitTo : KitStatuses \cup {"none"},
           missed : SUBSET {"booking", "kit"}]]

Init ==
    /\ status = [b \in Bookings |-> "DRAFT"]
    /\ kitStatus = "AVAILABLE"
    /\ signed = {}
    /\ returnDoc = [b \in Bookings |-> "NONE"]
    /\ call = [s \in Sessions |-> Idle]

-----------------------------------------------------------------------------
(* Locks *)

HasBooking(s) == call[s].op \in DOMAIN Target /\ call[s].at \in {"booking", "kit", "done"}
HasKit(s)     == call[s].at = "done" /\ call[s].kitTo # "none"

BookingFree(b, s) == \A r \in Sessions \ {s} : ~(HasBooking(r) /\ call[r].booking = b)
KitFree(s)        == \A r \in Sessions \ {s} : ~HasKit(r)

\* bookings_no_overlapping_period_per_kit: a write that makes b hold the kit
\* waits for calls that may yet decide whether a colliding booking does.
ConstraintWaits(b, s) ==
    \E r \in Sessions \ {s} : HasBooking(r) /\ <<b, call[r].booking>> \in Colliding
ConstraintRefuses(b) ==
    \E c \in Bookings : <<b, c>> \in Colliding /\ status[c] \in HoldingStatuses

-----------------------------------------------------------------------------
(* READ COMMITTED calls *)

\* requireLifecycle and the checks on what it read.
Accepts(op, b) ==
    IF op = "startReturn"
    THEN CanStartReturn(status[b]) /\ b \in signed /\ returnDoc[b] = "NONE"
    ELSE /\ CanTransition(status[b], Target[op])
         /\ op \in {"reserveBooking", "markReadyForHandover"} => kitStatus # "MAINTENANCE"

ReadBooking(s, op, b) ==
    /\ call[s] = Idle
    /\ op \in BookingOps
    /\ Accepts(op, b)
    /\ call' = [call EXCEPT ![s] =
                  [Idle EXCEPT !.op = op, !.booking = b, !.at = "read", !.saw = status[b]]]
    /\ UNCHANGED rows

\* (Fault) the exclusion constraint does not exist.
WriteRefusedByIndexOnly(op, b) == op = "startReturn" /\ returnDoc[b] # "NONE"

\* What the database says to the write: the exclusion constraint when the
\* booking is to hold the kit, and one live RETURN inspection per booking.
WriteRefused(op, b) ==
    \/ Target[op] \in HoldingStatuses /\ ConstraintRefuses(b)
    \/ op = "startReturn" /\ returnDoc[b] # "NONE"

\* UPDATE ... WHERE id: by now the status may be another than the one it saw.
WriteBooking(s) ==
    LET b  == call[s].booking
        op == call[s].op
    IN  /\ call[s].at = "read" /\ op \in BookingOps
        /\ BookingFree(b, s)
        /\ Target[op] \in HoldingStatuses => ~ConstraintWaits(b, s)
        /\ call' = [call EXCEPT ![s].at = IF WriteRefused(op, b) THEN "failed" ELSE "booking"]
        /\ UNCHANGED rows

\* The calls that go on to setKitAside, and the direction.
SetsAside(s) == call[s].op = "markReadyForHandover"
PutsBack(s)  ==
    \/ call[s].op = "revertReadyForHandover"
    \/ call[s].op = "cancelBooking" /\ call[s].saw = "READY_FOR_HANDOVER"

ReadKit(s) ==
    /\ call[s].at = "booking" /\ (SetsAside(s) \/ PutsBack(s))
    /\ call' = [call EXCEPT ![s] =
          IF SetsAside(s) /\ kitStatus = "AVAILABLE"
          THEN [@ EXCEPT !.at = "kit", !.kitTo = "RESERVED"]
          ELSE IF PutsBack(s) /\ kitStatus = "RESERVED"
          THEN [@ EXCEPT !.at = "kit", !.kitTo = "AVAILABLE"]
          ELSE [@ EXCEPT !.at = "done"]]
    /\ UNCHANGED rows

\* updateKit writes every field of the form, the status it read included.
UpdateKit(s) ==
    /\ call[s] = Idle
    /\ \E to \in IF kitStatus \in {"RESERVED", "CHECKED_OUT"} THEN {kitStatus}
                 ELSE {"AVAILABLE", "MAINTENANCE"} :
         call' = [call EXCEPT ![s] = [Idle EXCEPT !.op = "updateKit", !.at = "kit", !.kitTo = to]]
    /\ UNCHANGED rows

-----------------------------------------------------------------------------
(* SERIALIZABLE calls *)

\* Whether the snapshot taken now lets the completion pass its checks.
Completable(op, b) ==
    IF op = "completeHandover"
    THEN status[b] = "READY_FOR_HANDOVER" /\ kitStatus = "RESERVED" /\ b \notin signed
    ELSE status[b] = "RETURN_INSPECTION" /\ b \in signed /\ returnDoc[b] = "IN_PROGRESS"

\* SELECT ... FOR UPDATE is the first statement and takes the snapshot; the
\* lock may have to be waited for.  A completion its own snapshot refuses
\* changes nothing and is not a step here.
Snapshot(s, op, b) ==
    /\ call[s] = Idle
    /\ op \in Completions
    /\ Completable(op, b)
    /\ call' = [call EXCEPT ![s] =
                  [Idle EXCEPT !.op = op, !.booking = b, !.at = "locking", !.saw = status[b]]]
    /\ UNCHANGED rows

\* (Fault) the lock is granted on a row that changed while waiting.
LockAnyVersion(s) ==
    /\ call[s].at = "locking"
    /\ BookingFree(call[s].booking, s)
    /\ \E to \in IF call[s].op = "completeHandover" THEN {"CHECKED_OUT"} ELSE {"AVAILABLE"} :
         call' = [call EXCEPT ![s] = [@ EXCEPT !.at = "kit", !.kitTo = to]]
    /\ UNCHANGED rows

\* The lock is granted; a row that changed after the snapshot is a
\* serialization failure.  Otherwise the checks pass as they did in the
\* snapshot and the booking is written.
Lock(s) ==
    /\ call[s].at = "locking"
    /\ BookingFree(call[s].booking, s)
    /\ \E to \in IF call[s].op = "completeHandover" THEN {"CHECKED_OUT"}
                 ELSE {"AVAILABLE", "MAINTENANCE"} :
         call' = [call EXCEPT ![s] =
                    IF "booking" \in call[s].missed THEN [@ EXCEPT !.at = "failed"]
                    ELSE [@ EXCEPT !.at = "kit", !.kitTo = to]]
    /\ UNCHANGED rows

-----------------------------------------------------------------------------
(* The end of every call *)

\* Only a completion has rows it missed.
WriteKit(s) ==
    /\ call[s].at = "kit"
    /\ KitFree(s)
    /\ call' = [call EXCEPT ![s].at = IF "kit" \in call[s].missed THEN "failed" ELSE "done"]
    /\ UNCHANGED rows

\* (Fault) a call that does not touch the kit is left open.
FinishedWithTheKit(s) == call[s].at = "done"

Finished(s) ==
    \/ call[s].at = "done"
    \/ call[s].at = "booking" /\ ~SetsAside(s) /\ ~PutsBack(s)

\* Every completion still running has missed what s commits.
Commit(s) ==
    LET b == call[s].booking
        o == call[s].op
    IN  /\ Finished(s)
        /\ status' = IF o = "updateKit" THEN status ELSE [status EXCEPT ![b] = Target[o]]
        /\ kitStatus' = IF call[s].kitTo = "none" THEN kitStatus ELSE call[s].kitTo
        /\ signed' = IF o = "completeHandover" THEN signed \cup {b} ELSE signed
        /\ returnDoc' = CASE o = "startReturn"    -> [returnDoc EXCEPT ![b] = "IN_PROGRESS"]
                          [] o = "completeReturn" -> [returnDoc EXCEPT ![b] = "COMPLETED"]
                          [] OTHER                -> returnDoc
        /\ call' = [r \in Sessions |->
             IF r = s THEN Idle
             ELSE IF call[r].op \in Completions /\ call[r].at \in {"locking", "kit"}
             THEN [call[r] EXCEPT !.missed = @
                     \cup (IF call[r].booking = b THEN {"booking"} ELSE {})
                     \cup (IF call[s].kitTo # "none" THEN {"kit"} ELSE {})]
             ELSE call[r]]

\* The caller is told and nothing was changed.
Fail(s) ==
    /\ call[s].at = "failed"
    /\ call' = [call EXCEPT ![s] = Idle]
    /\ UNCHANGED rows

\* The transaction's time is up, or its connection is lost.
RollBack(s) ==
    /\ call[s].at \notin {"idle", "failed"}
    /\ call' = [call EXCEPT ![s] = Idle]
    /\ UNCHANGED rows

Proceed(s) == WriteBooking(s) \/ ReadKit(s) \/ Lock(s) \/ WriteKit(s) \/ Commit(s) \/ Fail(s)

Next ==
    \E s \in Sessions :
        \/ \E b \in Bookings :
             \/ \E op \in BookingOps : ReadBooking(s, op, b)
             \/ \E op \in Completions : Snapshot(s, op, b)
        \/ UpdateKit(s)
        \/ Proceed(s)
        \/ RollBack(s)

\* A call under way has its next statement executed, and a lock it waits for
\* is granted to it in its turn: the database queues waiters.
Fairness == \A s \in Sessions : SF_vars(Proceed(s))

Spec     == Init /\ [][Next]_vars
FairSpec == Spec /\ Fairness

-----------------------------------------------------------------------------
(* Properties *)

(***************************************************************************)
(* Whatever calls race, no two bookings of the kit whose windows overlap   *)
(* are committed in a status that holds it.                                *)
(***************************************************************************)
NoCollidingHolds ==
    \A b, c \in Bookings :
        <<b, c>> \in Colliding
            => ~(status[b] \in HoldingStatuses /\ status[c] \in HoldingStatuses)

(***************************************************************************)
(* A completion never acts on what it merely saw: when one commits, the    *)
(* booking still has, at that moment, the status it asks for, and for a    *)
(* handover the kit is still set aside; nothing another call committed     *)
(* since the completion began is overwritten.                              *)
(***************************************************************************)
CompletionsOverwriteNothing ==
    [][\A s \in Sessions :
         call[s].op \in Completions /\ rows' # rows /\ call'[s] = Idle
            => Completable(call[s].op, call[s].booking)]_vars

(***************************************************************************)
(* No two calls wait for each other: every call ends.                      *)
(***************************************************************************)
CallsEnd == \A s \in Sessions : call[s].at # "idle" ~> call[s].at = "idle"

-----------------------------------------------------------------------------
(* What the documentation says and the code does not do *)

(***************************************************************************)
(* "CHECKED_OUT and beyond belong to the handover and return workflows"    *)
(* (booking-rules.ts:41-42): no other call moves a booking out of them.    *)
(***************************************************************************)
OutBelongsToTheWorkflows ==
    [][\A b \in Bookings :
         status[b] = "CHECKED_OUT" => status'[b] \in {"CHECKED_OUT", "RETURN_INSPECTION"}]_vars
=============================================================================
