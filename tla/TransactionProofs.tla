------------------------- MODULE TransactionProofs --------------------------
(***************************************************************************)
(* Proofs about a booking in time and under concurrent calls.              *)
(*                                                                         *)
(* BookingTransactions, for every set of bookings of a kit, every overlap  *)
(* between their windows and any number of calls at once.  Both properties *)
(* rest on one invariant.  It says what a call may rely on at each of its  *)
(* statements: which rows it has locked against the others, that a         *)
(* colliding booking cannot hold the kit once a write that makes its own   *)
(* hold it went through, and which of the facts a completion read from its *)
(* snapshot are still so.                                                  *)
(*                                                                         *)
(* The time rules, BookingClock and what the Overviews make of it, for     *)
(* every set of instants and of time zones and every value of the minute,  *)
(* the day, the grace and the lead time.                                   *)
(***************************************************************************)
EXTENDS BookingTransactions, Overviews, TLAPS

-----------------------------------------------------------------------------
(* Concurrent calls *)

Running == {"read", "locking", "booking", "kit", "done", "failed"}

\* What the statements of a call leave in its record.
Formed(s) ==
    /\ call[s].at \in Running => call[s].op # "none"
    /\ call[s].op \in DOMAIN Target => call[s].booking \in Bookings
    /\ call[s].at \in {"read", "booking"} => call[s].op \in BookingOps /\ call[s].kitTo = "none"
    /\ call[s].at = "locking" => call[s].op \in Completions
    /\ call[s].at = "kit" => call[s].kitTo # "none"
    /\ call[s].at = "done" /\ call[s].op \in Completions => call[s].kitTo # "none"

\* Row locks: two calls have neither the same booking written nor the kit.
Apart(s, r) ==
    /\ HasBooking(s) /\ HasBooking(r) => call[s].booking # call[r].booking
    /\ ~(HasKit(s) /\ HasKit(r))

\* The call has written, at READ COMMITTED, that its booking is to hold the kit.
Claims(s) ==
    HasBooking(s) /\ call[s].op \in BookingOps /\ Target[call[s].op] \in HoldingStatuses

\* Such a write went through: nothing that collides holds the kit, and no other
\* call is about to commit that it does.
Claimed(s) ==
    Claims(s) =>
        /\ \A c \in Bookings : <<call[s].booking, c>> \in Colliding => status[c] \notin HoldingStatuses
        /\ \A r \in Sessions \ {s} : Claims(r) => <<call[s].booking, call[r].booking>> \notin Colliding

\* Completable, taken apart by the row it reads.
BookingAsRead(op, b) ==
    IF op = "completeHandover"
    THEN status[b] = "READY_FOR_HANDOVER" /\ b \notin signed
    ELSE status[b] = "RETURN_INSPECTION" /\ b \in signed /\ returnDoc[b] = "IN_PROGRESS"

KitAsRead(op) == op = "completeHandover" => kitStatus = "RESERVED"

\* What a completion read is still so: the booking unless it was missed and
\* not yet locked, the kit unless it was missed and not yet written.
ReliesOnBooking(s) ==
    call[s].at \in {"kit", "done"} \/ (call[s].at = "locking" /\ "booking" \notin call[s].missed)

ReliesOnKit(s) ==
    call[s].at = "done" \/ (call[s].at \in {"locking", "kit"} /\ "kit" \notin call[s].missed)

Current(s) ==
    call[s].op \in Completions =>
        /\ ReliesOnBooking(s) => BookingAsRead(call[s].op, call[s].booking)
        /\ ReliesOnKit(s) => KitAsRead(call[s].op)

TransactionInv ==
    /\ TypeOK
    /\ \A s \in Sessions : Formed(s) /\ Claimed(s) /\ Current(s)
    /\ \A s, r \in Sessions : s # r => Apart(s, r)
    /\ NoCollidingHolds

-----------------------------------------------------------------------------
Calls ==
    [op : DOMAIN Target \cup {"updateKit", "none"},
     booking : Bookings \cup {NoBooking},
     at : {"idle", "read", "locking", "booking", "kit", "done", "failed"},
     saw : BookingStatuses \cup {"ABSENT"},
     kitTo : KitStatuses \cup {"none"},
     missed : SUBSET {"booking", "kit"}]

LEMMA Operations ==
    /\ DOMAIN Target = {"reserveBooking", "returnToDraft", "markReadyForHandover",
                        "revertReadyForHandover", "cancelBooking", "startReturn",
                        "completeHandover", "completeReturn"}
    /\ BookingOps = {"reserveBooking", "returnToDraft", "markReadyForHandover",
                     "revertReadyForHandover", "cancelBooking", "startReturn"}
    /\ BookingOps \cap Completions = {}
    /\ \A op \in DOMAIN Target : Target[op] \in BookingStatuses
BY DEF Target, BookingOps, Completions, BookingStatuses

LEMMA InitHolds == Init => TransactionInv
BY DEF Init, TransactionInv, TypeOK, Formed, Apart, Claims, Claimed, Current, NoCollidingHolds,
       HasBooking, HasKit, Idle, Running, Completions, Target, BookingStatuses, KitStatuses,
       DocPhases, HoldingStatuses, ReliesOnBooking, ReliesOnKit

(***************************************************************************)
(* A statement that commits nothing touches the record of its own call     *)
(* only: what has to be shown is about that call, and about its locks      *)
(* against the others'.                                                    *)
(***************************************************************************)
LEMMA Moved ==
    ASSUME TransactionInv, NEW s \in Sessions, NEW record \in Calls,
           UNCHANGED rows, call' = [call EXCEPT ![s] = record],
           Formed(s)', Claimed(s)', Current(s)',
           \A r \in Sessions \ {s} : Apart(s, r)'
    PROVE  TransactionInv'
<1>1. /\ status' = status /\ kitStatus' = kitStatus /\ signed' = signed /\ returnDoc' = returnDoc
  BY DEF rows
<1>2. TypeOK /\ call \in [Sessions -> Calls]
  BY DEF TransactionInv, TypeOK, Calls
<1>3. TypeOK'
  BY <1>1, <1>2 DEF TypeOK, Calls
<1>4. \A r \in Sessions \ {s} : call'[r] = call[r]
  BY <1>2
<1>5. ASSUME NEW r \in Sessions, r # s
      PROVE  Formed(r)' /\ Claimed(r)' /\ Current(r)'
  <2>1. call'[r] = call[r] /\ Formed(r) /\ Claimed(r) /\ Current(r)
    BY <1>4, <1>5 DEF TransactionInv
  <2>2. Formed(r)'
    BY <2>1 DEF Formed
  <2>3. Current(r)'
    BY <2>1, <1>1 DEF Current, ReliesOnBooking, ReliesOnKit, BookingAsRead, KitAsRead
  <2>4. Claims(r)' <=> Claims(r)
    BY <2>1 DEF Claims, HasBooking
  <2>5. ASSUME NEW q \in Sessions \ {r}, Claims(q)', Claims(r)'
        PROVE  <<call'[r].booking, call'[q].booking>> \notin Colliding
    <3>1. CASE q # s
      <4>1. call'[q] = call[q]
        BY <1>4, <2>5, <3>1
      <4> QED
        BY <2>1, <2>4, <2>5, <4>1 DEF Claimed, Claims, HasBooking
    <3>2. CASE q = s
      <4>1. <<call'[s].booking, call'[r].booking>> \notin Colliding
        BY <2>5, <3>2, <1>5 DEF Claimed
      <4>2. call'[s].booking \in Bookings /\ call'[r].booking \in Bookings
        BY <2>2, <2>5, <3>2 DEF Formed, Claims, HasBooking, BookingOps
      <4> QED
        BY <4>1, <4>2, <3>2, TransactionAssumption
    <3> QED
      BY <3>1, <3>2
  <2>6. Claimed(r)'
    BY <2>1, <2>4, <2>5, <1>1 DEF Claimed
  <2> QED
    BY <2>2, <2>3, <2>6
<1>6. ASSUME NEW r \in Sessions, NEW q \in Sessions, r # q
      PROVE  Apart(r, q)'
  <2>1. CASE r # s /\ q # s
    BY <1>4, <1>6, <2>1 DEF TransactionInv, Apart, HasBooking, HasKit
  <2>2. CASE r = s
    BY <1>6, <2>2
  <2>3. CASE q = s
    <3>1. Apart(s, r)'
      BY <1>6, <2>3
    <3> QED
      BY <3>1, <2>3 DEF Apart
  <2> QED
    BY <2>1, <2>2, <2>3
<1>7. NoCollidingHolds'
  BY <1>1 DEF TransactionInv, NoCollidingHolds
<1> QED
  BY <1>3, <1>5, <1>6, <1>7 DEF TransactionInv

\* A call that ends without committing gives everything up.
LEMMA GivenUp ==
    ASSUME TransactionInv, NEW s \in Sessions, UNCHANGED rows, call' = [call EXCEPT ![s] = Idle]
    PROVE  TransactionInv'
<1>1. Idle \in Calls
  BY DEF Idle, Calls
<1>2. call'[s] = Idle
  BY DEF TransactionInv, TypeOK
<1>3. /\ Formed(s)' /\ Claimed(s)' /\ Current(s)'
      /\ \A r \in Sessions \ {s} : Apart(s, r)'
  BY <1>2, Operations DEF Idle, Formed, Running, Claimed, Claims, HasBooking, HasKit, Current,
        Completions, Apart
<1> QED
  BY <1>1, <1>3, Moved

-----------------------------------------------------------------------------
(* One lemma per statement *)

LEMMA ReadBookingStep ==
    ASSUME TransactionInv, NEW s \in Sessions, NEW op \in BookingOps, NEW b \in Bookings,
           ReadBooking(s, op, b)
    PROVE  TransactionInv'
<1> DEFINE record == [Idle EXCEPT !.op = op, !.booking = b, !.at = "read", !.saw = status[b]]
<1>1. record \in Calls
  BY Operations DEF Idle, Calls, TransactionInv, TypeOK
<1>2. UNCHANGED rows /\ call' = [call EXCEPT ![s] = record] /\ call'[s] = record
  BY DEF ReadBooking, TransactionInv, TypeOK
<1>3. record.op = op /\ record.at = "read" /\ record.booking = b /\ record.kitTo = "none"
  BY DEF Idle
<1> HIDE DEF record
<1>4. /\ Formed(s)' /\ Claimed(s)' /\ Current(s)'
      /\ \A r \in Sessions \ {s} : Apart(s, r)'
  BY <1>2, <1>3, Operations DEF Formed, Running, Claimed, Claims, HasBooking, HasKit, Current, Apart
<1> QED
  BY <1>1, <1>2, <1>4, Moved

LEMMA UpdateKitStep ==
    ASSUME TransactionInv, NEW s \in Sessions, UpdateKit(s)
    PROVE  TransactionInv'
<1>1. PICK to \in KitStatuses :
        call' = [call EXCEPT ![s] = [Idle EXCEPT !.op = "updateKit", !.at = "kit", !.kitTo = to]]
  BY DEF UpdateKit, TransactionInv, TypeOK, KitStatuses
<1> DEFINE record == [Idle EXCEPT !.op = "updateKit", !.at = "kit", !.kitTo = to]
<1>2. record \in Calls
  BY DEF Idle, Calls
<1>3. UNCHANGED rows /\ call' = [call EXCEPT ![s] = record] /\ call'[s] = record
  BY <1>1 DEF UpdateKit, TransactionInv, TypeOK
<1>4. record.op = "updateKit" /\ record.at = "kit" /\ record.kitTo # "none"
  BY DEF Idle, KitStatuses
<1> HIDE DEF record
<1>5. /\ Formed(s)' /\ Claimed(s)' /\ Current(s)'
      /\ \A r \in Sessions \ {s} : Apart(s, r)'
  BY <1>3, <1>4, Operations DEF Formed, Running, Claimed, Claims, HasBooking, HasKit, Current,
        Completions, Apart
<1> QED
  BY <1>2, <1>3, <1>5, Moved

LEMMA SnapshotStep ==
    ASSUME TransactionInv, NEW s \in Sessions, NEW op \in Completions, NEW b \in Bookings,
           Snapshot(s, op, b)
    PROVE  TransactionInv'
<1> DEFINE record == [Idle EXCEPT !.op = op, !.booking = b, !.at = "locking", !.saw = status[b]]
<1>1. record \in Calls
  BY Operations DEF Idle, Calls, TransactionInv, TypeOK, Completions
<1>2. /\ UNCHANGED rows /\ call' = [call EXCEPT ![s] = record] /\ call'[s] = record
      /\ Completable(op, b)
  BY DEF Snapshot, TransactionInv, TypeOK
<1>3. record.op = op /\ record.at = "locking" /\ record.booking = b
  BY DEF Idle
<1> HIDE DEF record
<1>4. BookingAsRead(op, b)' /\ KitAsRead(op)'
  BY <1>2 DEF Completable, BookingAsRead, KitAsRead, rows
<1>5. /\ Formed(s)' /\ Claimed(s)' /\ Current(s)'
      /\ \A r \in Sessions \ {s} : Apart(s, r)'
  <2>1. Current(s)'
    BY <1>2, <1>3, <1>4 DEF Current
  <2>2. op # "none"
    BY DEF Completions
  <2> QED
    BY <1>2, <1>3, <2>1, <2>2 DEF Formed, Running, Claimed, Claims, HasBooking, HasKit, Apart
<1> QED
  BY <1>1, <1>2, <1>5, Moved

\* The constraint has waited for the others and looked at what they committed.
LEMMA WriteBookingStep ==
    ASSUME TransactionInv, NEW s \in Sessions, WriteBooking(s)
    PROVE  TransactionInv'
<1> DEFINE b      == call[s].booking
           op     == call[s].op
           record == [call[s] EXCEPT !.at = IF WriteRefused(op, b) THEN "failed" ELSE "booking"]
<1>1. call \in [Sessions -> Calls]
  BY DEF TransactionInv, TypeOK, Calls
<1>2. record \in Calls
  BY <1>1 DEF Calls
<1>3. /\ UNCHANGED rows /\ call' = [call EXCEPT ![s] = record] /\ call'[s] = record
      /\ op \in BookingOps /\ call[s].at = "read" /\ BookingFree(b, s)
  BY <1>1 DEF WriteBooking
<1>4. /\ record.op = op /\ record.booking = b /\ record.kitTo = "none"
      /\ record.at = IF WriteRefused(op, b) THEN "failed" ELSE "booking"
      /\ b \in Bookings
  BY <1>1, <1>3, Operations DEF Calls, TransactionInv, Formed
<1>5. Target[op] \in HoldingStatuses => ~ConstraintWaits(b, s)
  BY DEF WriteBooking
<1>6. \A r \in Sessions \ {s} : call'[r] = call[r]
  BY <1>1, <1>3
<1> HIDE DEF record
<1>7. Formed(s)' /\ Current(s)'
  BY <1>3, <1>4, Operations DEF Formed, Running, Current
<1>8. Claimed(s)'
  <2> SUFFICES ASSUME Claims(s)'
               PROVE  Claimed(s)'
    BY DEF Claimed
  <2>1. record.at = "booking" /\ Target[op] \in HoldingStatuses
    BY <1>3, <1>4 DEF Claims, HasBooking
  <2>2. ~ConstraintRefuses(b) /\ ~ConstraintWaits(b, s)
    BY <1>4, <1>5, <2>1 DEF WriteRefused
  <2>3. \A c \in Bookings : <<b, c>> \in Colliding => status'[c] \notin HoldingStatuses
    BY <1>3, <2>2 DEF ConstraintRefuses, rows
  <2>4. \A r \in Sessions \ {s} : Claims(r)' => <<b, call'[r].booking>> \notin Colliding
    BY <1>6, <2>2 DEF ConstraintWaits, Claims, HasBooking
  <2> QED
    BY <1>3, <1>4, <2>3, <2>4 DEF Claimed
<1>9. \A r \in Sessions \ {s} : Apart(s, r)'
  BY <1>3, <1>4, <1>6 DEF Apart, HasBooking, HasKit, BookingFree
<1> QED
  BY <1>2, <1>3, <1>7, <1>8, <1>9, Moved

\* From one statement to the next with what is locked already.
LEMMA ReadKitStep ==
    ASSUME TransactionInv, NEW s \in Sessions, ReadKit(s)
    PROVE  TransactionInv'
<1> DEFINE record == IF SetsAside(s) /\ kitStatus = "AVAILABLE"
                     THEN [call[s] EXCEPT !.at = "kit", !.kitTo = "RESERVED"]
                     ELSE IF PutsBack(s) /\ kitStatus = "RESERVED"
                     THEN [call[s] EXCEPT !.at = "kit", !.kitTo = "AVAILABLE"]
                     ELSE [call[s] EXCEPT !.at = "done"]
<1>1. call \in [Sessions -> Calls]
  BY DEF TransactionInv, TypeOK, Calls
<1>2. record \in Calls
  BY <1>1 DEF Calls, KitStatuses
<1>3. /\ UNCHANGED rows /\ call' = [call EXCEPT ![s] = record] /\ call'[s] = record
      /\ call[s].at = "booking" /\ call[s].op \in BookingOps /\ call[s].kitTo = "none"
  BY <1>1 DEF ReadKit, TransactionInv, Formed
<1>4. /\ record.op = call[s].op /\ record.booking = call[s].booking
      /\ \/ record.at = "kit" /\ record.kitTo # "none"
         \/ record.at = "done" /\ record.kitTo = "none"
  BY <1>1, <1>3 DEF Calls
<1>5. \A r \in Sessions \ {s} : call'[r] = call[r]
  BY <1>1, <1>3
<1>6. Formed(s) /\ Claimed(s) /\ HasBooking(s) /\ (Claims(s)' <=> Claims(s))
  <2>1. Formed(s) /\ Claimed(s)
    BY DEF TransactionInv
  <2> HIDE DEF record
  <2>2. HasBooking(s) /\ (Claims(s)' <=> Claims(s))
    BY <1>3, <1>4, Operations DEF HasBooking, Claims
  <2> QED
    BY <2>1, <2>2
<1> HIDE DEF record
<1>7. Formed(s)' /\ Current(s)'
  BY <1>3, <1>4, <1>6, Operations DEF Formed, Running, Current
<1>8. Claimed(s)'
  BY <1>3, <1>4, <1>5, <1>6 DEF Claimed, Claims, HasBooking, rows
<1>9. \A r \in Sessions \ {s} : Apart(s, r)'
  BY <1>3, <1>4, <1>5, <1>6 DEF TransactionInv, Apart, HasBooking, HasKit
<1> QED
  BY <1>2, <1>3, <1>7, <1>8, <1>9, Moved

\* The booking's row is granted, and the snapshot's facts about it hold unless
\* it was missed; the constraint has nothing to say about a booking that holds
\* the kit already, or that gives it up.
LEMMA LockStep ==
    ASSUME TransactionInv, NEW s \in Sessions, Lock(s)
    PROVE  TransactionInv'
<1>1. call \in [Sessions -> Calls]
  BY DEF TransactionInv, TypeOK, Calls
<1>2. PICK to \in {"CHECKED_OUT", "AVAILABLE", "MAINTENANCE"} :
        call' = [call EXCEPT ![s] =
                   IF "booking" \in call[s].missed THEN [call[s] EXCEPT !.at = "failed"]
                   ELSE [call[s] EXCEPT !.at = "kit", !.kitTo = to]]
  BY <1>1 DEF Lock
<1> DEFINE record == IF "booking" \in call[s].missed THEN [call[s] EXCEPT !.at = "failed"]
                     ELSE [call[s] EXCEPT !.at = "kit", !.kitTo = to]
<1>3. record \in Calls
  BY <1>1 DEF Calls, KitStatuses
<1>4. /\ UNCHANGED rows /\ call' = [call EXCEPT ![s] = record] /\ call'[s] = record
      /\ call[s].at = "locking" /\ BookingFree(call[s].booking, s)
  BY <1>1, <1>2 DEF Lock
<1>5. Formed(s) /\ Current(s) /\ call[s].op \in Completions
  BY <1>4 DEF TransactionInv, Formed
<1>6. /\ record.op = call[s].op /\ record.booking = call[s].booking
      /\ record.missed = call[s].missed
      /\ \/ record.at = "failed"
         \/ record.at = "kit" /\ record.kitTo # "none" /\ "booking" \notin call[s].missed
  BY <1>1 DEF Calls
<1>7. \A r \in Sessions \ {s} : call'[r] = call[r]
  BY <1>1, <1>4
<1> HIDE DEF record
<1>8. Formed(s)' /\ Claimed(s)'
  BY <1>4, <1>5, <1>6, Operations DEF Formed, Running, Claimed, Claims
<1>9. Current(s)'
  BY <1>4, <1>5, <1>6
     DEF Current, ReliesOnBooking, ReliesOnKit, BookingAsRead, KitAsRead, rows
<1>10. \A r \in Sessions \ {s} : Apart(s, r)'
  BY <1>4, <1>6, <1>7 DEF Apart, HasBooking, HasKit, BookingFree
<1> QED
  BY <1>3, <1>4, <1>8, <1>9, <1>10, Moved

LEMMA WriteKitStep ==
    ASSUME TransactionInv, NEW s \in Sessions, WriteKit(s)
    PROVE  TransactionInv'
<1> DEFINE record == [call[s] EXCEPT !.at = IF "kit" \in call[s].missed THEN "failed" ELSE "done"]
<1>1. call \in [Sessions -> Calls]
  BY DEF TransactionInv, TypeOK, Calls
<1>2. record \in Calls
  BY <1>1 DEF Calls
<1>3. /\ UNCHANGED rows /\ call' = [call EXCEPT ![s] = record] /\ call'[s] = record
      /\ call[s].at = "kit" /\ KitFree(s)
  BY <1>1 DEF WriteKit
<1>4. Formed(s) /\ Current(s) /\ Claimed(s)
  BY DEF TransactionInv
<1>5. /\ record.op = call[s].op /\ record.booking = call[s].booking
      /\ record.kitTo = call[s].kitTo /\ record.missed = call[s].missed
      /\ record.at = IF "kit" \in call[s].missed THEN "failed" ELSE "done"
  BY <1>1 DEF Calls
<1>6. \A r \in Sessions \ {s} : call'[r] = call[r]
  BY <1>1, <1>3
<1> HIDE DEF record
<1>7. Formed(s)'
  BY <1>3, <1>4, <1>5 DEF Formed, Running
<1>8. Claimed(s)'
  BY <1>3, <1>4, <1>5, <1>6 DEF Claimed, Claims, HasBooking, rows
<1>9. Current(s)'
  BY <1>3, <1>4, <1>5
     DEF Current, ReliesOnBooking, ReliesOnKit, BookingAsRead, KitAsRead, rows
<1>10. \A r \in Sessions \ {s} : Apart(s, r)'
  BY <1>3, <1>5, <1>6 DEF TransactionInv, Apart, HasBooking, HasKit, KitFree
<1> QED
  BY <1>2, <1>3, <1>7, <1>8, <1>9, <1>10, Moved

-----------------------------------------------------------------------------
(* Committing *)

\* What is known of a call that commits, and of the others while it does.
LEMMA Committing ==
    ASSUME TransactionInv, NEW s \in Sessions, Commit(s)
    PROVE  /\ call[s].op \in DOMAIN Target \cup {"updateKit"}
           /\ call[s].op \in DOMAIN Target => HasBooking(s) /\ call[s].booking \in Bookings
           /\ call[s].kitTo # "none" => HasKit(s)
           /\ call'[s] = Idle
           /\ \A r \in Sessions \ {s} :
                /\ call'[r].op = call[r].op /\ call'[r].booking = call[r].booking
                /\ call'[r].at = call[r].at /\ call'[r].kitTo = call[r].kitTo
                /\ call[r].op \in Completions /\ call[r].at \in {"locking", "kit"} =>
                     /\ call[r].missed \subseteq call'[r].missed
                     /\ call[r].booking = call[s].booking => "booking" \in call'[r].missed
                     /\ call[s].kitTo # "none" => "kit" \in call'[r].missed
<1>1. call \in [Sessions -> Calls]
  BY DEF TransactionInv, TypeOK, Calls
<1>2. Formed(s) /\ call[s].at \in {"booking", "done"}
  BY DEF TransactionInv, Commit, Finished
<1>3. call[s].op \in DOMAIN Target \cup {"updateKit"}
  BY <1>1, <1>2 DEF Formed, Running, Calls
<1>4. call[s].op \in DOMAIN Target => HasBooking(s) /\ call[s].booking \in Bookings
  BY <1>2 DEF Formed, HasBooking
<1>5. call[s].kitTo # "none" => HasKit(s)
  BY <1>2 DEF Formed, HasKit
<1>6. call'[s] = Idle
  BY DEF Commit
<1>7. ASSUME NEW r \in Sessions \ {s}
      PROVE  /\ call'[r].op = call[r].op /\ call'[r].booking = call[r].booking
             /\ call'[r].at = call[r].at /\ call'[r].kitTo = call[r].kitTo
             /\ call[r].op \in Completions /\ call[r].at \in {"locking", "kit"} =>
                  /\ call[r].missed \subseteq call'[r].missed
                  /\ call[r].booking = call[s].booking => "booking" \in call'[r].missed
                  /\ call[s].kitTo # "none" => "kit" \in call'[r].missed
  <2>1. call[r] \in Calls
    BY <1>1
  <2>2. CASE call[r].op \in Completions /\ call[r].at \in {"locking", "kit"}
    <3>1. call'[r] = [call[r] EXCEPT !.missed = call[r].missed
                        \cup (IF call[r].booking = call[s].booking THEN {"booking"} ELSE {})
                        \cup (IF call[s].kitTo # "none" THEN {"kit"} ELSE {})]
      BY <2>2 DEF Commit
    <3> QED
      BY <2>1, <3>1 DEF Calls
  <2>3. CASE ~(call[r].op \in Completions /\ call[r].at \in {"locking", "kit"})
    <3>1. call'[r] = call[r]
      BY <2>3 DEF Commit
    <3> QED
      BY <2>3, <3>1
  <2> QED
    BY <2>2, <2>3
<1> QED
  BY <1>3, <1>4, <1>5, <1>6, <1>7

\* A commit changes the booking of its call and, when it wrote it, the kit.
LEMMA Committed ==
    ASSUME TransactionInv, NEW s \in Sessions, Commit(s)
    PROVE  /\ TypeOK'
           /\ \A b \in Bookings :
                call[s].op = "updateKit" \/ b # call[s].booking =>
                  /\ status'[b] = status[b] /\ returnDoc'[b] = returnDoc[b]
                  /\ b \in signed' <=> b \in signed
           /\ call[s].op \in DOMAIN Target =>
                status'[call[s].booking] = Target[call[s].op]
           /\ call[s].kitTo = "none" => kitStatus' = kitStatus
<1> DEFINE b == call[s].booking
           o == call[s].op
<1>1. TypeOK /\ call \in [Sessions -> Calls]
  BY DEF TransactionInv, TypeOK, Calls
<1>2. o \in DOMAIN Target \cup {"updateKit"} /\ (o \in DOMAIN Target => b \in Bookings)
  BY Committing
<1>3. status' = IF o = "updateKit" THEN status ELSE [status EXCEPT ![b] = Target[o]]
  BY DEF Commit
<1>4. kitStatus' = IF call[s].kitTo = "none" THEN kitStatus ELSE call[s].kitTo
  BY DEF Commit
<1>5. signed' = IF o = "completeHandover" THEN signed \cup {b} ELSE signed
  BY DEF Commit
<1>6. returnDoc' = CASE o = "startReturn"    -> [returnDoc EXCEPT ![b] = "IN_PROGRESS"]
                     [] o = "completeReturn" -> [returnDoc EXCEPT ![b] = "COMPLETED"]
                     [] OTHER                -> returnDoc
  BY DEF Commit
<1>7. \/ returnDoc' = returnDoc
      \/ \E p \in {"IN_PROGRESS", "COMPLETED"} :
           returnDoc' = [returnDoc EXCEPT ![b] = p] /\ o # "updateKit"
  BY <1>6
<1>8. \A r \in Sessions : call'[r] \in Calls
  <2>1. ASSUME NEW r \in Sessions
        PROVE  call'[r] \in Calls
    <3>1. call[r] \in Calls
      BY <1>1
    <3>2. \/ call'[r] = Idle
          \/ call'[r] = call[r]
          \/ call'[r] = [call[r] EXCEPT !.missed = call[r].missed
                           \cup (IF call[r].booking = b THEN {"booking"} ELSE {})
                           \cup (IF call[s].kitTo # "none" THEN {"kit"} ELSE {})]
      BY DEF Commit
    <3>3. Idle \in Calls
      BY DEF Idle, Calls
    <3> QED
      BY <3>1, <3>2, <3>3 DEF Calls
  <2> QED
    BY <2>1
<1>9. call' \in [Sessions -> Calls]
  BY <1>8 DEF Commit
<1>10. status' \in [Bookings -> BookingStatuses] /\ returnDoc' \in [Bookings -> DocPhases]
  BY <1>1, <1>2, <1>3, <1>7, Operations DEF TypeOK, DocPhases
<1>11. kitStatus' \in KitStatuses /\ signed' \subseteq Bookings
  <2>1. o = "completeHandover" => b \in Bookings
    BY <1>2, Operations
  <2>2. call[s].kitTo \in KitStatuses \cup {"none"}
    BY <1>1 DEF Calls
  <2> QED
    BY <1>1, <1>4, <1>5, <2>1, <2>2 DEF TypeOK
<1>12. TypeOK'
  BY <1>9, <1>10, <1>11 DEF TypeOK, Calls
<1>13. ASSUME NEW c \in Bookings, o = "updateKit" \/ c # b
       PROVE  /\ status'[c] = status[c] /\ returnDoc'[c] = returnDoc[c]
              /\ c \in signed' <=> c \in signed
  BY <1>1, <1>3, <1>5, <1>7, <1>13 DEF TypeOK
<1>14. o \in DOMAIN Target => status'[b] = Target[o]
  BY <1>1, <1>2, <1>3, Operations DEF TypeOK
<1> QED
  BY <1>4, <1>12, <1>13, <1>14

\* A completed handover commits for a booking that held the kit already.
LEMMA HandoverHolds ==
    ASSUME TransactionInv, NEW s \in Sessions, HasBooking(s), call[s].op = "completeHandover"
    PROVE  status[call[s].booking] \in HoldingStatuses
<1>1. Formed(s) /\ Current(s) /\ call[s].at \in {"booking", "kit", "done"}
  BY DEF TransactionInv, HasBooking
<1>2. call[s].at # "booking"
  BY <1>1, Operations DEF Formed
<1>3. BookingAsRead("completeHandover", call[s].booking)
  BY <1>1, <1>2 DEF Current, ReliesOnBooking, Completions
<1> QED
  BY <1>3 DEF BookingAsRead, HoldingStatuses

LEMMA CommitStep ==
    ASSUME TransactionInv, NEW s \in Sessions, Commit(s)
    PROVE  TransactionInv'
<1> DEFINE b == call[s].booking
<1>1. /\ call[s].op \in DOMAIN Target \cup {"updateKit"}
      /\ call[s].op \in DOMAIN Target => HasBooking(s) /\ b \in Bookings
      /\ call[s].kitTo # "none" => HasKit(s)
      /\ call'[s] = Idle
  BY Committing
<1>2. /\ \A c \in Bookings :
           call[s].op = "updateKit" \/ c # b =>
             /\ status'[c] = status[c] /\ returnDoc'[c] = returnDoc[c]
             /\ c \in signed' <=> c \in signed
      /\ call[s].op \in DOMAIN Target => status'[b] = Target[call[s].op]
      /\ call[s].kitTo = "none" => kitStatus' = kitStatus
  BY Committed
<1>3. TypeOK'
  BY Committed
<1>4. ASSUME NEW c \in Bookings, status'[c] \in HoldingStatuses, status[c] \notin HoldingStatuses
      PROVE  c = b /\ Claims(s)
  <2>1. call[s].op \in DOMAIN Target /\ c = b
    BY <1>1, <1>2, <1>4
  <2>2. call[s].op # "completeHandover"
    BY <1>1, <1>4, <2>1, HandoverHolds
  <2>3. call[s].op # "completeReturn"
    BY <1>2, <1>4, <2>1 DEF Target, HoldingStatuses
  <2> QED
    BY <1>1, <1>2, <1>4, <2>1, <2>2, <2>3, Operations DEF Claims
<1>5. ASSUME NEW r \in Sessions, r = s
      PROVE  Formed(r)' /\ Claimed(r)' /\ Current(r)' /\ ~HasBooking(r)' /\ ~HasKit(r)'
  BY <1>1, <1>5, Operations DEF Formed, Running, Claimed, Claims, HasBooking, HasKit, Current,
        Completions, Idle
<1>6. ASSUME NEW r \in Sessions \ {s}
      PROVE  /\ call'[r].op = call[r].op /\ call'[r].booking = call[r].booking
             /\ call'[r].at = call[r].at /\ call'[r].kitTo = call[r].kitTo
             /\ call[r].op \in Completions /\ call[r].at \in {"locking", "kit"} =>
                  /\ call[r].missed \subseteq call'[r].missed
                  /\ call[r].booking = b => "booking" \in call'[r].missed
                  /\ call[s].kitTo # "none" => "kit" \in call'[r].missed
  BY Committing
<1>7. ASSUME NEW r \in Sessions \ {s}
      PROVE  (Claims(r)' <=> Claims(r)) /\ (HasBooking(r)' <=> HasBooking(r))
             /\ (HasKit(r)' <=> HasKit(r))
  BY <1>6 DEF Claims, HasBooking, HasKit
<1>8. ASSUME NEW r \in Sessions \ {s}
      PROVE  Formed(r)'
  BY <1>6 DEF TransactionInv, Formed
<1>9. ASSUME NEW r \in Sessions \ {s}, Claims(r)
      PROVE  Claimed(r)'
  <2>1. Claimed(r) /\ call'[r].booking = call[r].booking
    BY <1>6 DEF TransactionInv
  <2>2. ASSUME NEW c \in Bookings, <<call[r].booking, c>> \in Colliding
        PROVE  status'[c] \notin HoldingStatuses
    <3>1. status[c] \notin HoldingStatuses
      BY <1>9, <2>1, <2>2 DEF Claimed
    <3>2. Claims(s) => <<call[r].booking, b>> \notin Colliding
      BY <1>9, <2>1 DEF Claimed
    <3> QED
      BY <1>4, <2>2, <3>1, <3>2
  <2>3. ASSUME NEW q \in Sessions \ {r}, Claims(q)'
        PROVE  <<call[r].booking, call'[q].booking>> \notin Colliding
    <3>1. q # s
      BY <1>5, <2>3 DEF Claims
    <3>2. Claims(q) /\ call'[q].booking = call[q].booking
      BY <1>6, <1>7, <2>3, <3>1
    <3> QED
      BY <1>9, <2>1, <2>3, <3>2 DEF Claimed
  <2> QED
    BY <2>1, <2>2, <2>3 DEF Claimed
<1>10. ASSUME NEW r \in Sessions \ {s}, call[r].op \in Completions
       PROVE  Current(r)'
  <2>1. Formed(r) /\ Current(r) /\ Apart(s, r) /\ call[r].booking \in Bookings
    BY <1>10 DEF TransactionInv, Formed, Completions, Target
  <2>2. ASSUME ReliesOnBooking(r)'
        PROVE  BookingAsRead(call[r].op, call[r].booking)'
    <3>1. ReliesOnBooking(r) /\ (call[s].op = "updateKit" \/ call[r].booking # b)
      <4>1. CASE call[r].at = "locking"
        BY <1>6, <1>10, <2>2, <4>1 DEF ReliesOnBooking
      <4>2. CASE call[r].at \in {"kit", "done"}
        <5>1. HasBooking(r)
          BY <1>10, <4>2 DEF HasBooking, Completions, Target
        <5> QED
          BY <1>1, <2>1, <4>2, <5>1 DEF ReliesOnBooking, Apart
      <4> QED
        BY <1>6, <2>2, <4>1, <4>2 DEF ReliesOnBooking
    <3>2. BookingAsRead(call[r].op, call[r].booking)
      BY <1>10, <2>1, <3>1 DEF Current
    <3> QED
      BY <1>2, <1>6, <2>1, <3>1, <3>2 DEF BookingAsRead
  <2>3. ASSUME ReliesOnKit(r)'
        PROVE  KitAsRead(call[r].op)'
    <3>1. ReliesOnKit(r) /\ call[s].kitTo = "none"
      <4>1. CASE call[r].at \in {"locking", "kit"}
        BY <1>6, <1>10, <2>3, <4>1 DEF ReliesOnKit
      <4>2. CASE call[r].at = "done"
        BY <1>1, <1>10, <2>1, <4>2 DEF ReliesOnKit, Apart, HasKit, Formed
      <4> QED
        BY <1>6, <2>3, <4>1, <4>2 DEF ReliesOnKit
    <3>2. KitAsRead(call[r].op)
      BY <1>10, <2>1, <3>1 DEF Current
    <3> QED
      BY <1>2, <1>6, <3>1, <3>2 DEF KitAsRead
  <2> QED
    BY <2>2, <2>3, <1>6 DEF Current
<1>11. \A r \in Sessions : Formed(r)' /\ Claimed(r)' /\ Current(r)'
  <2>1. \A r \in Sessions \ {s} : ~Claims(r) => Claimed(r)'
    BY <1>7 DEF Claimed
  <2>2. \A r \in Sessions \ {s} : call[r].op \notin Completions => Current(r)'
    BY <1>6 DEF Current
  <2> QED
    BY <1>5, <1>8, <1>9, <1>10, <2>1, <2>2
<1>12. \A r, q \in Sessions : r # q => Apart(r, q)'
  BY <1>5, <1>6, <1>7 DEF TransactionInv, Apart
<1>13. NoCollidingHolds'
  <2> SUFFICES ASSUME NEW c \in Bookings, NEW d \in Bookings, <<c, d>> \in Colliding,
                      status'[c] \in HoldingStatuses, status'[d] \in HoldingStatuses
               PROVE  FALSE
    BY DEF NoCollidingHolds
  <2>1. c # d /\ <<d, c>> \in Colliding
    BY TransactionAssumption
  <2>2. status[c] \notin HoldingStatuses \/ status[d] \notin HoldingStatuses
    BY DEF TransactionInv, NoCollidingHolds
  <2>3. Claims(s) => \A e \in Bookings : <<b, e>> \in Colliding => status[e] \notin HoldingStatuses
    BY DEF TransactionInv, Claimed
  <2> QED
    BY <1>4, <2>1, <2>2, <2>3
<1> QED
  BY <1>3, <1>11, <1>12, <1>13 DEF TransactionInv

-----------------------------------------------------------------------------
LEMMA TransactionStep == TransactionInv /\ [Next]_vars => TransactionInv'
<1> SUFFICES ASSUME TransactionInv, [Next]_vars
             PROVE  TransactionInv'
  OBVIOUS
<1>1. ASSUME NEW s \in Sessions, Proceed(s)
      PROVE  TransactionInv'
  <2>1. CASE Fail(s)
    BY <2>1, GivenUp DEF Fail
  <2> QED
    BY <1>1, <2>1, WriteBookingStep, ReadKitStep, LockStep, WriteKitStep, CommitStep DEF Proceed
<1>2. ASSUME NEW s \in Sessions, RollBack(s)
      PROVE  TransactionInv'
  BY <1>2, GivenUp DEF RollBack
<1>3. CASE UNCHANGED vars
  BY <1>3 DEF vars, rows, TransactionInv, TypeOK, Formed, Claimed, Claims, Current, Apart,
        ReliesOnBooking, ReliesOnKit, BookingAsRead, KitAsRead, HasBooking, HasKit, NoCollidingHolds
<1> QED
  BY <1>1, <1>2, <1>3, ReadBookingStep, SnapshotStep, UpdateKitStep DEF Next

(***************************************************************************)
(* However many calls race, two bookings whose windows overlap are never   *)
(* both committed as holding the kit (the exclusion constraint, together   *)
(* with completeHandover, which writes a holding status without meeting    *)
(* it).                                                                    *)
(***************************************************************************)
THEOREM CollidingHoldsAreExcluded == Spec => []NoCollidingHolds
<1>1. TransactionInv => NoCollidingHolds
  BY DEF TransactionInv
<1> QED
  BY <1>1, InitHolds, TransactionStep, PTL DEF Spec

(***************************************************************************)
(* When a completion commits, what its snapshot showed it is still so: the *)
(* locks it takes and the serialization failures are enough.               *)
(***************************************************************************)
LEMMA OverwritesNothing ==
    TransactionInv /\ [Next]_vars =>
      \A s \in Sessions :
        call[s].op \in Completions /\ rows' # rows /\ call'[s] = Idle
          => Completable(call[s].op, call[s].booking)
<1> SUFFICES ASSUME TransactionInv, [Next]_vars, NEW s \in Sessions,
                    call[s].op \in Completions, rows' # rows, call'[s] = Idle
             PROVE  Completable(call[s].op, call[s].booking)
  OBVIOUS
<1>1. PICK r \in Sessions : Commit(r)
  BY DEF Next, vars, rows, ReadBooking, Snapshot, UpdateKit, Proceed, WriteBooking, ReadKit, Lock,
        WriteKit, Fail, RollBack
<1>2. r = s
  <2>1. r # s => call'[s].op = call[s].op
    BY <1>1, Committing
  <2> QED
    BY <2>1 DEF Idle, Completions
<1>3. Formed(s) /\ Current(s) /\ call[s].at = "done"
  BY <1>1, <1>2, Operations DEF TransactionInv, Formed, Commit, Finished
<1>4. BookingAsRead(call[s].op, call[s].booking) /\ KitAsRead(call[s].op)
  BY <1>3 DEF Current, ReliesOnBooking, ReliesOnKit
<1> QED
  BY <1>4 DEF BookingAsRead, KitAsRead, Completable

THEOREM CompletionsAreCurrent == Spec => CompletionsOverwriteNothing
<1>1. Spec => [][\A s \in Sessions :
                   call[s].op \in Completions /\ rows' # rows /\ call'[s] = Idle
                     => Completable(call[s].op, call[s].booking)]_vars
  BY InitHolds, TransactionStep, OverwritesNothing, PTL DEF Spec
<1> QED
  BY <1>1 DEF CompletionsOverwriteNothing

-----------------------------------------------------------------------------
(* Times *)

(***************************************************************************)
(* rangesOverlap means what its comment says: two windows that end after   *)
(* they start overlap exactly when some instant lies in both of them, the  *)
(* end of a window not being part of it.                                   *)
(***************************************************************************)
THEOREM OverlapIsASharedInstant ==
    ASSUME NEW aStart \in Int, NEW aEnd \in Int, NEW bStart \in Int, NEW bEnd \in Int,
           aStart < aEnd, bStart < bEnd
    PROVE  RangesOverlap(aStart, aEnd, bStart, bEnd)
             <=> \E t \in Int : (aStart =< t /\ t < aEnd) /\ (bStart =< t /\ t < bEnd)
<1>1. ASSUME RangesOverlap(aStart, aEnd, bStart, bEnd)
      PROVE  \E t \in Int : (aStart =< t /\ t < aEnd) /\ (bStart =< t /\ t < bEnd)
  <2>1. CASE aStart =< bStart
    <3>1. (aStart =< bStart /\ bStart < aEnd) /\ (bStart =< bStart /\ bStart < bEnd)
      BY <1>1, <2>1 DEF RangesOverlap
    <3> QED
      BY <3>1
  <2>2. CASE bStart < aStart
    <3>1. (aStart =< aStart /\ aStart < aEnd) /\ (bStart =< aStart /\ aStart < bEnd)
      BY <1>1, <2>2 DEF RangesOverlap
    <3> QED
      BY <3>1
  <2> QED
    BY <2>1, <2>2
<1>2. ASSUME NEW t \in Int, aStart =< t, t < aEnd, bStart =< t, t < bEnd
      PROVE  RangesOverlap(aStart, aEnd, bStart, bEnd)
  BY <1>2 DEF RangesOverlap
<1> QED
  BY <1>1, <1>2

\* What the proofs need to know of a schedule's fields.
LEMMA ScheduleFields ==
    ASSUME NEW s \in Schedules
    PROVE  /\ s.start \in Nat /\ s.end \in Nat /\ s.expected \in Nat
           /\ s.collection \in Nat \cup {NoCollection}
BY ClockAssumption DEF Schedules

(***************************************************************************)
(* Every schedule scheduleErrors lets through satisfies the CHECK          *)
(* constraints of the bookings table, whatever the lead time.              *)
(***************************************************************************)
THEOREM ValidationCoversTheConstraints == ValidatedSchedulesFit
<1> SUFFICES ASSUME NEW s \in Schedules, ScheduleErrors(s) = {}
             PROVE  RowAccepted(s)
  BY DEF ValidatedSchedulesFit
<1>1. /\ s.start \in Nat /\ s.end \in Nat /\ s.expected \in Nat
      /\ s.collection \in Nat \cup {NoCollection}
  BY ScheduleFields
<1>2. PeriodIsOrdered(s)
  <2>1. "bookingEnd" \notin ScheduleErrors(s)
    OBVIOUS
  <2> QED
    BY <1>1, <2>1 DEF ScheduleErrors, PeriodIsOrdered
<1>3. ReturnAfterCollection(s)
  <2>1. "expectedReturnDate" \notin ScheduleErrors(s)
    OBVIOUS
  <2>2. CASE s.collection = NoCollection
    BY <2>2 DEF ReturnAfterCollection
  <2>3. CASE s.collection # NoCollection
    BY <1>1, <2>1, <2>3 DEF ScheduleErrors, ReturnAfterCollection
  <2> QED
    BY <2>2, <2>3
<1> QED
  BY <1>2, <1>3 DEF RowAccepted

-----------------------------------------------------------------------------
LEMMA ClockTypeStep == ClockTypeOK /\ [ClockNext]_clockVars => ClockTypeOK'
<1> SUFFICES ASSUME ClockTypeOK, [ClockNext]_clockVars
             PROVE  ClockTypeOK'
  OBVIOUS
<1> USE DEF ClockTypeOK
<1>1. CASE Tick
  BY <1>1 DEF Tick
<1>2. ASSUME NEW s \in Schedules, CreateBooking(s)
      PROVE  ClockTypeOK'
  BY <1>2 DEF CreateBooking, BookingStatuses
<1>3. ASSUME NEW s \in Schedules, UpdateSchedule(s)
      PROVE  ClockTypeOK'
  BY <1>3 DEF UpdateSchedule
<1>4. ASSUME NEW to \in BookingStatuses, ChangeStatus(to)
      PROVE  ClockTypeOK'
  BY <1>4 DEF ChangeStatus
<1>5. CASE CompleteHandover
  <2>1. RowAccepted(schedule') /\ schedule' = [schedule EXCEPT !.collection = now]
    BY <1>5 DEF CompleteHandover, Collect
  <2>2. CASE schedule \in Schedules
    BY <1>5, <2>1, <2>2 DEF CompleteHandover, Schedules, BookingStatuses
  <2>3. CASE schedule = NoSchedule
    \* the placeholder never ends after it starts, and the row would be refused
    <3>1. schedule'.end = 0 /\ schedule'.start = 0
      BY <2>1, <2>3 DEF NoSchedule
    <3> QED
      BY <2>1, <3>1 DEF RowAccepted, PeriodIsOrdered
  <2> QED
    BY <2>2, <2>3
<1>6. CASE StartReturn
  BY <1>6 DEF StartReturn, BookingStatuses
<1>7. CASE CompleteReturn
  BY <1>7 DEF CompleteReturn, BookingStatuses
<1>8. CASE UNCHANGED clockVars
  BY <1>8 DEF clockVars
<1> QED
  BY <1>1, <1>2, <1>3, <1>4, <1>5, <1>6, <1>7, <1>8 DEF ClockNext

THEOREM ClockTypeCorrect == ClockSpec => []ClockTypeOK
<1>1. ClockInit => ClockTypeOK
  BY DEF ClockInit, ClockTypeOK, BookingStatuses
<1> QED
  BY <1>1, ClockTypeStep, PTL DEF ClockSpec

(***************************************************************************)
(* TimesInOrder needs no strengthening but the types.                      *)
(***************************************************************************)
TimesInv == ClockTypeOK /\ TimesInOrder

LEMMA TimesInductive == TimesInv /\ [ClockNext]_clockVars => TimesInv'
<1> SUFFICES ASSUME TimesInv, [ClockNext]_clockVars
             PROVE  TimesInOrder'
  BY ClockTypeStep DEF TimesInv
<1>t. ClockTypeOK /\ ClockTypeOK' /\ TimesInOrder
  BY ClockTypeStep DEF TimesInv
<1>n. now \in Nat /\ now' \in Nat
  BY <1>t, ClockAssumption DEF ClockTypeOK
<1>1. CASE Tick
  <2>1. now < now' /\ UNCHANGED <<bookingStatus, schedule, actualReturn>>
    BY <1>1 DEF Tick
  <2>2. schedule \in Schedules \cup {NoSchedule} /\ actualReturn \in Nat \cup {NotReturned}
    BY <1>t, ClockAssumption DEF ClockTypeOK
  <2>3. schedule.collection \in Nat \cup {NoCollection}
    BY <2>2, ScheduleFields DEF NoSchedule
  <2> QED
    BY <1>t, <1>n, <2>1, <2>2, <2>3 DEF TimesInOrder, HasBeenCollected, NoCollection, NotReturned
<1>2. ASSUME NEW s \in Schedules, CreateBooking(s)
      PROVE  TimesInOrder'
  BY <1>2 DEF CreateBooking, TimesInOrder, HasBeenCollected
<1>3. ASSUME NEW s \in Schedules, UpdateSchedule(s)
      PROVE  TimesInOrder'
  BY <1>3 DEF UpdateSchedule, EditScopeFor, TimesInOrder, HasBeenCollected
<1>4. ASSUME NEW to \in BookingStatuses, ChangeStatus(to)
      PROVE  TimesInOrder'
  BY <1>4 DEF ChangeStatus, CanTransition, ManualTransitions, TimesInOrder, HasBeenCollected
<1>5. CASE CompleteHandover
  <2>1. /\ bookingStatus' = "CHECKED_OUT" /\ now' = now
        /\ schedule' = [schedule EXCEPT !.collection = now] /\ RowAccepted(schedule')
    BY <1>5 DEF CompleteHandover, Collect
  <2>2. schedule'.collection = now
    BY <1>t, <2>1 DEF ClockTypeOK, Schedules, NoSchedule
  <2>3. now =< schedule'.expected
    <3>1. schedule' \in Schedules \cup {NoSchedule}
      BY <1>t DEF ClockTypeOK
    <3>2. schedule'.expected \in Nat
      BY <3>1, ScheduleFields DEF NoSchedule
    <3> QED
      BY <1>n, <2>1, <2>2, <3>2 DEF RowAccepted, ReturnAfterCollection, NoCollection
  <2> QED
    BY <1>n, <2>1, <2>2, <2>3 DEF TimesInOrder, HasBeenCollected, NoCollection
<1>6. CASE StartReturn
  BY <1>6, <1>t DEF StartReturn, CanStartReturn, ReturnStartStatuses, TimesInOrder, HasBeenCollected
<1>7. CASE CompleteReturn
  BY <1>7, <1>t, <1>n DEF CompleteReturn, TimesInOrder, HasBeenCollected
<1>8. CASE UNCHANGED clockVars
  BY <1>8, <1>t DEF clockVars, TimesInOrder, HasBeenCollected
<1> QED
  BY <1>1, <1>2, <1>3, <1>4, <1>5, <1>6, <1>7, <1>8 DEF ClockNext

(***************************************************************************)
(* What a booking that went out has on record is in order: collected, due, *)
(* returned, now.                                                          *)
(***************************************************************************)
THEOREM TimesAreOrdered == ClockSpec => []TimesInOrder
<1>1. ClockInit => TimesInv
  BY DEF ClockInit, TimesInv, ClockTypeOK, TimesInOrder, HasBeenCollected, BookingStatuses
<1>2. TimesInv => TimesInOrder
  BY DEF TimesInv
<1> QED
  BY <1>1, <1>2, TimesInductive, PTL DEF ClockSpec

(***************************************************************************)
(* Once a booking is overdue it is Late for good: out or in inspection     *)
(* with the clock past the expected return, or returned after it.          *)
(***************************************************************************)
Late ==
    \/ bookingStatus \in {"CHECKED_OUT", "OVERDUE", "RETURN_INSPECTION"} /\ schedule.expected < now
    \/ bookingStatus = "COMPLETED" /\ schedule.expected < actualReturn

\* No code writes the status OVERDUE, so a booking is overdue by the clock.
NeverMarkedOverdue == bookingStatus # "OVERDUE"

LEMMA NeverMarkedStep == NeverMarkedOverdue /\ [ClockNext]_clockVars => NeverMarkedOverdue'
<1> USE DEF NeverMarkedOverdue
<1>1. ASSUME NEW to \in BookingStatuses, ChangeStatus(to)
      PROVE  bookingStatus' # "OVERDUE"
  BY <1>1 DEF ChangeStatus, CanTransition, ManualTransitions
<1> QED
  BY <1>1 DEF ClockNext, Tick, CreateBooking, UpdateSchedule, CompleteHandover, StartReturn,
              CompleteReturn, clockVars

LEMMA LateForGood == ClockTypeOK /\ Late /\ [ClockNext]_clockVars => Late'
<1> SUFFICES ASSUME ClockTypeOK, Late, [ClockNext]_clockVars
             PROVE  Late'
  OBVIOUS
<1>n. now \in Nat /\ now' \in Nat
  BY ClockTypeStep, ClockAssumption DEF ClockTypeOK
<1>e. schedule.expected \in Nat
  BY ScheduleFields DEF ClockTypeOK, NoSchedule
<1>1. CASE Tick
  BY <1>1, <1>n, <1>e DEF Tick, Late
<1>2. ASSUME NEW s \in Schedules, CreateBooking(s)
      PROVE  Late'
  BY <1>2 DEF CreateBooking, Late
<1>3. ASSUME NEW s \in Schedules, UpdateSchedule(s)
      PROVE  Late'
  BY <1>3 DEF UpdateSchedule, EditScopeFor, Late
<1>4. ASSUME NEW to \in BookingStatuses, ChangeStatus(to)
      PROVE  Late'
  BY <1>4 DEF ChangeStatus, CanTransition, ManualTransitions, Late
<1>5. CASE CompleteHandover
  BY <1>5 DEF CompleteHandover, Late
<1>6. CASE StartReturn
  BY <1>6 DEF StartReturn, CanStartReturn, ReturnStartStatuses, Late
<1>7. CASE CompleteReturn
  BY <1>7 DEF CompleteReturn, Late
<1>8. CASE UNCHANGED clockVars
  BY <1>8 DEF clockVars, Late
<1> QED
  BY <1>1, <1>2, <1>3, <1>4, <1>5, <1>6, <1>7, <1>8 DEF ClockNext

LEMMA LateIsOnRecord ==
    ClockTypeOK /\ Late
      => (bookingStatus = "COMPLETED" =>
            /\ actualReturn > schedule.expected
            /\ ReturnPunctuality(schedule.expected, actualReturn) # "early")
<1> SUFFICES ASSUME ClockTypeOK, Late, bookingStatus = "COMPLETED"
             PROVE  /\ actualReturn > schedule.expected
                    /\ ReturnPunctuality(schedule.expected, actualReturn) # "early"
  OBVIOUS
<1>1. schedule.expected \in Nat
  BY ScheduleFields DEF ClockTypeOK, NoSchedule
<1>2. actualReturn \in Int
  BY ClockAssumption DEF ClockTypeOK, NotReturned
<1>3. schedule.expected < actualReturn
  BY DEF Late
<1>4. ReturnGraceMinutes * Minute \in Nat
  BY TimeAssumption
<1> DEFINE grace == ReturnGraceMinutes * Minute
           difference == actualReturn - schedule.expected
<1>5. ~(difference < -grace) /\ difference \in Int
  BY <1>1, <1>2, <1>3, <1>4
<1>6. ReturnPunctuality(schedule.expected, actualReturn)
        = CASE difference > grace -> "late" [] difference < -grace -> "early" [] OTHER -> "on-time"
  BY DEF ReturnPunctuality
<1> HIDE DEF difference, grace
<1>7. ReturnPunctuality(schedule.expected, actualReturn) # "early"
  BY <1>5, <1>6
<1> QED
  BY <1>1, <1>2, <1>3, <1>7

(***************************************************************************)
(* No edit and no order of operations takes lateness off the record.       *)
(***************************************************************************)
THEOREM LatenessStaysOnRecord == ClockSpec => OverdueIsNotForgotten
<1> DEFINE OnRecord == bookingStatus = "COMPLETED" =>
                         /\ actualReturn > schedule.expected
                         /\ ReturnPunctuality(schedule.expected, actualReturn) # "early"
<1>1. ClockInit => NeverMarkedOverdue
  BY DEF ClockInit, NeverMarkedOverdue
<1>2. NeverMarkedOverdue /\ Overdue => Late
  BY DEF NeverMarkedOverdue, Overdue, IsBookingOverdue, Late
<1>3. ClockTypeOK /\ Late => OnRecord
  BY LateIsOnRecord
<1>4. ClockTypeOK /\ Late /\ [ClockNext]_clockVars => Late'
  BY LateForGood
<1> HIDE DEF OnRecord
<1>5. ClockSpec => [](Overdue => []OnRecord)
  BY <1>1, <1>2, <1>3, <1>4, NeverMarkedStep, ClockTypeCorrect, PTL DEF ClockSpec
<1> QED
  BY <1>5 DEF OverdueIsNotForgotten, OnRecord

(***************************************************************************)
(* The flags of the lists exclude each other, and between them they miss   *)
(* no booking that is out and due within the horizon.  The types and that  *)
(* OVERDUE is never written are all that is needed: a marked booking could *)
(* carry both flags.                                                       *)
(***************************************************************************)
LEMMA FlagsByTheClock == ClockTypeOK /\ NeverMarkedOverdue => OneTimeFlag
<1> SUFFICES ASSUME ClockTypeOK, NeverMarkedOverdue
             PROVE  OneTimeFlag
  OBVIOUS
<1> DEFINE horizon == now + DueSoonHours * Hour
<1>1. now \in Nat /\ schedule.expected \in Nat
  BY ScheduleFields, ClockAssumption DEF ClockTypeOK, NoSchedule
<1>2. Overdue <=> bookingStatus = "CHECKED_OUT" /\ schedule.expected < now
  BY DEF Overdue, IsBookingOverdue, NeverMarkedOverdue
<1>3. DueSoon <=> /\ bookingStatus = "CHECKED_OUT"
                  /\ now =< schedule.expected /\ schedule.expected < horizon
  BY DEF DueSoon, IsDueSoon, OutStatuses, NeverMarkedOverdue
<1> HIDE DEF horizon
<1>4. ~(Overdue /\ DueSoon)
  BY <1>1, <1>2, <1>3
<1>5. bookingStatus = "CHECKED_OUT" /\ horizon > schedule.expected => Overdue \/ DueSoon
  <2>1. horizon \in Nat
    BY <1>1, ClockAssumption, TimeAssumption DEF horizon, Hour
  <2> QED
    BY <1>1, <1>2, <1>3, <2>1
<1> QED
  BY <1>4, <1>5 DEF OneTimeFlag, horizon

THEOREM FlagsAreExclusive == ClockSpec => []OneTimeFlag
<1>1. ClockInit => NeverMarkedOverdue
  BY DEF ClockInit, NeverMarkedOverdue
<1> QED
  BY <1>1, NeverMarkedStep, ClockTypeCorrect, FlagsByTheClock, PTL DEF ClockSpec

-----------------------------------------------------------------------------
(* Local days.  Days are counted on the wall clock; Midnight(k) is what it  *)
(* reads when day k begins.                                                 *)

Midnight(k) == k * Day
DayOf(z, t) == WallClock(z, t) \div Day

\* The instant at which day k begins.
DayStart(z, k) == Midnight(k) - OffsetAt(z, Midnight(k) - z.before)

\* Whatever the divisor, a quotient is known by its bounds.
LEMMA QuotientIs ==
    ASSUME NEW d \in Nat \ {0}, NEW x \in Int, NEW q \in Int, q * d =< x, x < q * d + d
    PROVE  x \div d = q
<1> DEFINE p == x \div d
<1>1. p \in Int /\ p * d =< x /\ x < p * d + d
  OBVIOUS
<1> HIDE DEF p
<1>2. CASE p < q
  <2>1. (p + 1) * d =< q * d
    BY <1>1, <1>2
  <2>2. (p + 1) * d = p * d + d
    BY <1>1
  <2> QED
    BY <1>1, <2>1, <2>2
<1>3. CASE q < p
  <2>1. (q + 1) * d =< p * d
    BY <1>1, <1>3
  <2>2. (q + 1) * d = q * d + d
    OBVIOUS
  <2> QED
    BY <1>1, <2>1, <2>2
<1>4. p = q
  BY <1>1, <1>2, <1>3
<1> QED
  BY <1>4 DEF p

LEMMA QuotientBounds ==
    ASSUME NEW d \in Nat \ {0}, NEW x \in Int
    PROVE  /\ x \div d \in Int
           /\ (x \div d) * d =< x /\ x < (x \div d) * d + d
OBVIOUS

LEMMA MidnightIsInt ==
    ASSUME NEW k \in Int
    PROVE  Midnight(k) \in Int
BY DayAssumption DEF Midnight

LEMMA NextMidnight ==
    ASSUME NEW k \in Int
    PROVE  Midnight(k + 1) = Midnight(k) + Day
BY DayAssumption DEF Midnight

LEMMA MidnightsBetween ==
    ASSUME NEW j \in Int, NEW k \in Int
    PROVE  Midnight(k) - Midnight(j) = Midnight(k - j)
BY DayAssumption DEF Midnight

LEMMA MidnightsApart ==
    ASSUME NEW j \in Int, NEW k \in Int, j < k
    PROVE  Midnight(j) + Day =< Midnight(k)
<1>0. Day \in Nat \ {0}
  BY DayAssumption
<1>1. (j + 1) * Day =< k * Day
  BY <1>0
<1>2. (j + 1) * Day = j * Day + Day
  BY <1>0
<1> QED
  BY <1>1, <1>2 DEF Midnight

\* A reading is past a midnight exactly when its day is not an earlier one.
LEMMA PastMidnight ==
    ASSUME NEW x \in Int, NEW k \in Int
    PROVE  x \div Day \in Int /\ (Midnight(k) =< x <=> k =< x \div Day)
<1> DEFINE q == x \div Day
<1>0. Day \in Nat \ {0}
  BY DayAssumption
<1>1. q \in Int /\ Midnight(q) =< x /\ x < Midnight(q) + Day
  BY <1>0, QuotientBounds DEF Midnight
<1> HIDE DEF q
<1>2. Midnight(q) \in Int /\ Midnight(k) \in Int
  BY <1>1, MidnightIsInt
<1>3. ASSUME k < q
      PROVE  Midnight(k) =< x
  <2>1. Midnight(k) + Day =< Midnight(q)
    BY <1>1, <1>3, MidnightsApart
  <2> QED
    BY <1>0, <1>1, <1>2, <2>1
<1>4. ASSUME q < k
      PROVE  x < Midnight(k)
  <2>1. Midnight(q) + Day =< Midnight(k)
    BY <1>1, <1>4, MidnightsApart
  <2> QED
    BY <1>0, <1>1, <1>2, <2>1
<1>5. Midnight(k) =< x <=> k =< q
  BY <1>1, <1>2, <1>3, <1>4
<1> QED
  BY <1>1, <1>5 DEF q

\* A zone's clocks go over no midnight when they are changed.
LEMMA OneSide ==
    ASSUME NEW z \in Zones, NEW k \in Int
    PROVE  Midnight(k) - z.before < z.change <=> Midnight(k) - z.after < z.change
<1>1. z.change \in Int /\ z.before \in Int /\ z.after \in Int
  BY OverviewsAssumption
<1> DEFINE x == z.change + z.before - 1
           y == z.change + z.after - 1
<1>2. x \in Int /\ y \in Int /\ x \div Day = y \div Day
  BY <1>1, OverviewsAssumption
<1>3. Midnight(k) =< x <=> Midnight(k) =< y
  <2> HIDE DEF x, y
  <2> QED
    BY <1>2, PastMidnight
<1>4. Midnight(k) \in Int
  BY MidnightIsInt
<1> QED
  BY <1>1, <1>3, <1>4

\* Both passes of the lookups end at the beginning of the day, wherever the first
\* guess was made.
LEMMA Lookups ==
    ASSUME NEW z \in Zones, NEW k \in Int, NEW t \in Int
    PROVE  /\ DayStart(z, k) \in Int
           /\ DayStart(z, k) \in {Midnight(k) - z.before, Midnight(k) - z.after}
           /\ Midnight(k) - OffsetAt(z, Midnight(k) - OffsetAt(z, t)) = DayStart(z, k)
<1>1. /\ z.change \in Int /\ z.before \in Int /\ z.after \in Int
      /\ Midnight(k) \in Int
  BY OverviewsAssumption, MidnightIsInt
<1>2. OffsetAt(z, t) \in {z.before, z.after}
  BY DEF OffsetAt
<1>3. OffsetAt(z, Midnight(k) - z.before) = OffsetAt(z, Midnight(k) - z.after)
  BY OneSide DEF OffsetAt
<1> QED
  BY <1>1, <1>2, <1>3 DEF DayStart, OffsetAt

LEMMA TypedMidnight ==
    ASSUME NEW z \in Zones, NEW k \in Int
    PROVE  ZonedLocalToDate(z, k * Day) = DayStart(z, k)
BY Lookups, MidnightIsInt DEF ZonedLocalToDate, Midnight

\* An instant lies past the beginning of a day exactly when its own is no earlier.
LEMMA InDays ==
    ASSUME NEW z \in Zones, NEW t \in Int
    PROVE  /\ DayOf(z, t) \in Int
           /\ \A k \in Int : DayStart(z, k) =< t <=> k =< DayOf(z, t)
<1>1. z.change \in Int /\ z.before \in Int /\ z.after \in Int /\ WallClock(z, t) \in Int
  BY OverviewsAssumption DEF WallClock, OffsetAt
<1>2. ASSUME NEW k \in Int
      PROVE  DayStart(z, k) =< t <=> Midnight(k) =< WallClock(z, t)
  <2>1. Midnight(k) \in Int
    BY MidnightIsInt
  <2>2. Midnight(k) - z.before < z.change <=> Midnight(k) - z.after < z.change
    BY OneSide
  <2>3. CASE Midnight(k) - z.before < z.change
    BY <1>1, <2>1, <2>2, <2>3 DEF DayStart, WallClock, OffsetAt
  <2>4. CASE ~(Midnight(k) - z.before < z.change)
    BY <1>1, <2>1, <2>2, <2>4 DEF DayStart, WallClock, OffsetAt
  <2> QED
    BY <2>3, <2>4
<1>3. DayOf(z, t) \in Int /\ \A k \in Int : Midnight(k) =< WallClock(z, t) <=> k =< DayOf(z, t)
  BY <1>1, PastMidnight DEF DayOf
<1> QED
  BY <1>2, <1>3

LEMMA StartIsDayStart ==
    ASSUME NEW z \in Zones, NEW t \in Int
    PROVE  StartOfBusinessDay(z, t) = DayStart(z, DayOf(z, t))
<1>1. DayOf(z, t) \in Int
  BY InDays
<1>2. StartOfBusinessDay(z, t)
        = Midnight(DayOf(z, t)) - OffsetAt(z, Midnight(DayOf(z, t)) - OffsetAt(z, t))
  BY DEF StartOfBusinessDay, Midnight, DayOf
<1> QED
  BY <1>1, <1>2, Lookups

\* Every day is longer than the clocks are changed by.
LEMMA DaysFollow ==
    ASSUME NEW z \in Zones, NEW k \in Int
    PROVE  DayStart(z, k) < DayStart(z, k + 1)
<1>1. /\ z.before \in Int /\ z.after \in Int
      /\ 2 * (z.before - z.after) < Day /\ 2 * (z.after - z.before) < Day
  BY OverviewsAssumption
<1>2. Midnight(k) \in Int /\ Midnight(k + 1) = Midnight(k) + Day /\ Day \in Nat \ {0}
  BY MidnightIsInt, NextMidnight, DayAssumption
<1>3. /\ DayStart(z, k) \in {Midnight(k) - z.before, Midnight(k) - z.after}
      /\ DayStart(z, k + 1) \in {Midnight(k + 1) - z.before, Midnight(k + 1) - z.after}
  BY Lookups
<1> QED
  BY <1>1, <1>2, <1>3

\* 36 hours after it began, the next day is under way.
LEMMA DayRangeIs ==
    ASSUME NEW z \in Zones, NEW t \in Int
    PROVE  BusinessDayRange(z, t)
             = [start |-> DayStart(z, DayOf(z, t)), end |-> DayStart(z, DayOf(z, t) + 1)]
<1> DEFINE k == DayOf(z, t)
           start == DayStart(z, k)
           later == start + Day + Day \div 2
<1>1. k \in Int /\ k + 1 \in Int /\ k + 2 \in Int
  BY InDays
<1>2. /\ z.change \in Int /\ z.before \in Int /\ z.after \in Int
      /\ 2 * (z.before - z.after) < Day /\ 2 * (z.after - z.before) < Day
  BY OverviewsAssumption
<1>3. Day \in Nat \ {0} /\ Day \div 2 \in Int /\ 2 * (Day \div 2) =< Day /\ Day =< 2 * (Day \div 2) + 1
  BY DayAssumption
<1>4. /\ Midnight(k) \in Int
      /\ Midnight(k + 1) = Midnight(k) + Day
      /\ Midnight(k + 2) = Midnight(k) + Day + Day
  <2> HIDE DEF k
  <2>1. Midnight((k + 1) + 1) = Midnight(k + 1) + Day
    BY <1>1, NextMidnight
  <2>2. (k + 1) + 1 = k + 2
    BY <1>1
  <2>3. Midnight(k + 1) = Midnight(k) + Day
    BY <1>1, NextMidnight
  <2>4. Midnight(k) \in Int
    BY <1>1, MidnightIsInt
  <2> QED
    BY <2>1, <2>2, <2>3, <2>4
<1>5. /\ start \in Int /\ start \in {Midnight(k) - z.before, Midnight(k) - z.after}
      /\ DayStart(z, k + 1) \in {Midnight(k + 1) - z.before, Midnight(k + 1) - z.after}
      /\ DayStart(z, k + 2) \in {Midnight(k + 2) - z.before, Midnight(k + 2) - z.after}
  <2> HIDE DEF k
  <2> QED
    BY <1>1, Lookups
<1>6. later \in Int /\ DayStart(z, k + 1) =< later /\ later < DayStart(z, k + 2)
  <2> HIDE DEF k, start
  <2> QED
    BY <1>2, <1>3, <1>4, <1>5
<1>7. DayOf(z, later) = k + 1
  <2> HIDE DEF k, later
  <2>1. DayOf(z, later) \in Int
    BY <1>6, InDays
  <2>2. DayStart(z, k + 1) =< later <=> k + 1 =< DayOf(z, later)
    BY <1>1, <1>6, InDays
  <2>3. DayStart(z, k + 2) =< later <=> k + 2 =< DayOf(z, later)
    BY <1>1, <1>6, InDays
  <2>4. DayStart(z, k + 2) \in Int
    BY <1>2, <1>4, <1>5, DayAssumption
  <2> QED
    BY <1>1, <1>6, <2>1, <2>2, <2>3, <2>4
<1>8. StartOfBusinessDay(z, t) = start /\ StartOfBusinessDay(z, later) = DayStart(z, k + 1)
  BY <1>6, <1>7, StartIsDayStart
<1> QED
  BY <1>8 DEF BusinessDayRange

\* Rounding makes up for an hour more or less.
LEMMA DaysBetweenIs ==
    ASSUME NEW z \in Zones, NEW s \in Int, NEW t \in Int
    PROVE  BusinessDaysBetween(z, s, t) = DayOf(z, t) - DayOf(z, s)
<1> DEFINE j == DayOf(z, s)
           k == DayOf(z, t)
           x == 2 * (DayStart(z, k) - DayStart(z, j)) + Day
<1>1. j \in Int /\ k \in Int /\ k - j \in Int
  BY InDays
<1>2. /\ z.before \in Int /\ z.after \in Int
      /\ 2 * (z.before - z.after) < Day /\ 2 * (z.after - z.before) < Day
  BY OverviewsAssumption
<1>3. Day \in Nat \ {0} /\ 2 * Day \in Nat \ {0}
  BY DayAssumption
<1>4. /\ DayStart(z, k) \in {Midnight(k) - z.before, Midnight(k) - z.after}
      /\ DayStart(z, j) \in {Midnight(j) - z.before, Midnight(j) - z.after}
  <2> HIDE DEF j, k
  <2> QED
    BY <1>1, Lookups
<1>5. /\ Midnight(k) \in Int /\ Midnight(j) \in Int /\ Midnight(k - j) \in Int
      /\ Midnight(k) - Midnight(j) = Midnight(k - j)
  <2> HIDE DEF j, k
  <2> QED
    BY <1>1, MidnightIsInt, MidnightsBetween
<1>6. x \in Int /\ 2 * Midnight(k - j) =< x /\ x < 2 * Midnight(k - j) + 2 * Day
  <2> HIDE DEF j, k
  <2> QED
    BY <1>2, <1>3, <1>4, <1>5
<1>7. 2 * Midnight(k - j) = (k - j) * (2 * Day)
  <2> HIDE DEF j, k
  <2> QED
    BY <1>1, <1>3 DEF Midnight
<1>8. x \div (2 * Day) = k - j
  <2> HIDE DEF j, k, x
  <2> QED
    BY <1>1, <1>3, <1>6, <1>7, QuotientIs
<1>9. BusinessDaysBetween(z, s, t) = x \div (2 * Day)
  BY StartIsDayStart DEF BusinessDaysBetween
<1> QED
  BY <1>8, <1>9

-----------------------------------------------------------------------------
\* A return date is written by the one return, which is the last that happens.
ReturnedIsCompleted == actualReturn # NotReturned => bookingStatus = "COMPLETED"

OverviewsInv == TimesInv /\ NeverMarkedOverdue /\ ReturnedIsCompleted

LEMMA ReturnedStep == ReturnedIsCompleted /\ [ClockNext]_clockVars => ReturnedIsCompleted'
<1> USE DEF ReturnedIsCompleted
<1>1. ASSUME ReturnedIsCompleted, NEW to \in BookingStatuses, ChangeStatus(to)
      PROVE  ReturnedIsCompleted'
  BY <1>1 DEF ChangeStatus, CanTransition, ManualTransitions
<1>2. ASSUME ReturnedIsCompleted, NEW s \in Schedules, UpdateSchedule(s)
      PROVE  ReturnedIsCompleted'
  BY <1>2 DEF UpdateSchedule
<1> QED
  BY <1>1, <1>2 DEF ClockNext, Tick, CreateBooking, CompleteHandover, StartReturn,
                    CanStartReturn, ReturnStartStatuses, CompleteReturn, clockVars

\* What the comparisons need to know of a booking's times.
LEMMA TimesAreNumbers ==
    ASSUME ClockTypeOK
    PROVE  /\ now \in Nat /\ schedule.start \in Nat /\ schedule.expected \in Nat
           /\ schedule.collection \in Nat \cup {NoCollection}
           /\ actualReturn \in Nat \cup {NotReturned}
<1>1. now \in Nat /\ actualReturn \in Nat \cup {NotReturned}
  BY ClockAssumption DEF ClockTypeOK
<1>2. schedule \in Schedules \cup {NoSchedule}
  BY DEF ClockTypeOK
<1> QED
  BY <1>1, <1>2, ScheduleFields DEF NoSchedule

\* The lists, one by one.
LEMMA Panels ==
    ASSUME NEW z, IsListable
    PROVE  /\ OnPanel("overdue", z) <=> OverdueWhere
           /\ OnPanel("today", z) <=> InToday(z)
           /\ OnPanel("upcoming", z) <=> bookingStatus \in OutStatuses /\ schedule.expected >= now
           /\ OnTab("overdue", z) <=> OverdueWhere
           /\ OnTab("today", z) <=> InToday(z)
           /\ OnTab("checked-out", z) <=> bookingStatus \in OutStatuses
           /\ OnTab("due-soon", z) <=>
                /\ bookingStatus \in OutStatuses /\ now =< schedule.expected
                /\ schedule.expected < now + DueSoonHours * Hour
BY DEF OnPanel, OnTab

LEMMA Reports ==
    ASSUME NEW w, IsListable
    PROVE  /\ InReport("checked-out", w) <=> bookingStatus \in OutStatuses
           /\ InReport("overdue", w) <=> OverdueWhere
           /\ InReport("booking-history", w) <=> InWindow(schedule.start, w)
BY DEF InReport

LEMMA DueReturns ==
    ASSUME ClockTypeOK, IsListable
    PROVE  InReport("due-returns", AnyTime) <=>
             bookingStatus \in OutStatuses /\ schedule.expected >= now
<1>1. now \in Nat /\ schedule.expected \in Nat /\ NoDay \notin Int
  BY TimesAreNumbers, OverviewsAssumption
<1>2. AnyTime.from = NoDay /\ [AnyTime EXCEPT !.from = now] = [from |-> now, to |-> NoDay]
  BY DEF AnyTime
<1>3. InReport("due-returns", AnyTime) <=>
        bookingStatus \in OutStatuses
        /\ InWindow(schedule.expected, [AnyTime EXCEPT !.from = now])
  BY <1>2 DEF InReport
<1>4. InWindow(schedule.expected, [from |-> now, to |-> NoDay]) <=> now =< schedule.expected
  BY <1>1 DEF InWindow
<1> QED
  BY <1>1, <1>2, <1>3, <1>4

\* What the badge of a listed booking says.
LEMMA Badge ==
    ASSUME ClockTypeOK, NeverMarkedOverdue, NEW z \in Zones
    PROVE  /\ TimeBadge(z) = "Overdue" <=> OverdueWhere
           /\ TimeBadge(z) \in {"Due today", "Due tomorrow", "Due"} =>
                /\ bookingStatus = "CHECKED_OUT"
                /\ TimeBadge(z) = "Due today" <=>
                     DayOf(z, schedule.expected) = DayOf(z, now)
<1>1. now \in Nat /\ schedule.expected \in Nat
  BY TimesAreNumbers
<1>2. Overdue <=> bookingStatus = "CHECKED_OUT" /\ schedule.expected < now
  BY DEF Overdue, IsBookingOverdue, NeverMarkedOverdue
<1>3. OverdueWhere <=> Overdue
  BY <1>2 DEF OverdueWhere, NeverMarkedOverdue
<1>4. DueSoon => bookingStatus = "CHECKED_OUT"
  BY DEF DueSoon, IsDueSoon, OutStatuses, NeverMarkedOverdue
<1> DEFINE due == DescribeDue(z, schedule.expected, now)
           days == DayOf(z, schedule.expected) - DayOf(z, now)
<1>5. days \in Int /\ BusinessDaysBetween(z, now, schedule.expected) = days
      /\ (days = 0 <=> DayOf(z, schedule.expected) = DayOf(z, now))
  <2>1. DayOf(z, schedule.expected) \in Int /\ DayOf(z, now) \in Int
    BY <1>1, InDays
  <2>2. BusinessDaysBetween(z, now, schedule.expected) = days
    BY <1>1, DaysBetweenIs
  <2> QED
    BY <2>1, <2>2
<1>6. ASSUME ~(schedule.expected < now)
      PROVE  due \in {"Due today", "Due tomorrow", "Due"} /\ (due = "Due today" <=> days = 0)
  <2>1. due = CASE days = 0 -> "Due today" [] days = 1 -> "Due tomorrow" [] OTHER -> "Due"
    BY <1>5, <1>6 DEF DescribeDue
  <2> HIDE DEF due, days
  <2>2. ~(days = 0 /\ days = 1)
    OBVIOUS
  <2> QED
    BY <2>1, <2>2, Zenon
<1>7. TimeBadge(z) = IF Overdue THEN "Overdue"
                     ELSE IF DueSoon \/ bookingStatus = "CHECKED_OUT" THEN due ELSE "none"
  BY DEF TimeBadge
<1> HIDE DEF due, days
<1>8. CASE Overdue
  BY <1>3, <1>7, <1>8
<1>9. CASE ~Overdue /\ bookingStatus = "CHECKED_OUT"
  BY <1>1, <1>2, <1>3, <1>5, <1>6, <1>7, <1>9
<1>10. CASE ~Overdue /\ bookingStatus # "CHECKED_OUT"
  BY <1>3, <1>4, <1>7, <1>10
<1> QED
  BY <1>8, <1>9, <1>10

LEMMA LatenessIsOne == OverviewsInv /\ IsListable => LatenessAgrees
<1> SUFFICES ASSUME ClockTypeOK, NeverMarkedOverdue, IsListable, NEW z \in Zones
             PROVE  /\ OnPanel("overdue", z) <=> TimeBadge(z) = "Overdue"
                    /\ OnTab("overdue", z) <=> TimeBadge(z) = "Overdue"
                    /\ InReport("overdue", AnyTime) <=> TimeBadge(z) = "Overdue"
                    /\ OnPanel("upcoming", z) <=> InReport("due-returns", AnyTime)
                    /\ OnTab("due-soon", z) => OnPanel("upcoming", z)
                    /\ InReport("checked-out", AnyTime)
                         <=> (InReport("overdue", AnyTime) # InReport("due-returns", AnyTime))
                             /\ OnTab("checked-out", z)
  BY DEF OverviewsInv, TimesInv, LatenessAgrees
<1>1. now \in Nat /\ schedule.expected \in Nat
  BY TimesAreNumbers
<1>2. TimeBadge(z) = "Overdue" <=> OverdueWhere
  BY Badge
<1>3. OverdueWhere <=> bookingStatus = "CHECKED_OUT" /\ schedule.expected < now
  BY DEF OverdueWhere, NeverMarkedOverdue
<1>4. bookingStatus \in OutStatuses <=> bookingStatus = "CHECKED_OUT"
  BY DEF OutStatuses, NeverMarkedOverdue
<1>5. InReport("overdue", AnyTime) \in BOOLEAN /\ InReport("due-returns", AnyTime) \in BOOLEAN
  BY DEF InReport
<1>6. InReport("checked-out", AnyTime) <=>
        (InReport("overdue", AnyTime) # InReport("due-returns", AnyTime))
        /\ OnTab("checked-out", z)
  BY <1>1, <1>3, <1>4, <1>5, Panels, Reports, DueReturns
<1>7. OnTab("due-soon", z) => OnPanel("upcoming", z)
  BY <1>1, Panels
<1> QED
  BY <1>2, <1>6, <1>7, Panels, Reports, DueReturns

\* An instant is in today's range exactly when it is on today's date.
LEMMA TodaysRange ==
    ASSUME NEW z \in Zones, NEW s \in Int, NEW t \in Int
    PROVE  Within(t, BusinessDayRange(z, s)) <=> DayOf(z, t) = DayOf(z, s)
<1> DEFINE k == DayOf(z, s)
<1>1. k \in Int /\ k + 1 \in Int /\ DayOf(z, t) \in Int
  BY InDays
<1>2. /\ BusinessDayRange(z, s).start = DayStart(z, k)
      /\ BusinessDayRange(z, s).end = DayStart(z, k + 1)
  BY DayRangeIs
<1> HIDE DEF k
<1>3. DayStart(z, k) \in Int /\ DayStart(z, k + 1) \in Int
  BY <1>1, Lookups
<1>4. DayStart(z, k) =< t <=> k =< DayOf(z, t)
  BY <1>1, InDays
<1>5. DayStart(z, k + 1) =< t <=> k + 1 =< DayOf(z, t)
  BY <1>1, InDays
<1>6. Within(t, BusinessDayRange(z, s)) <=> DayOf(z, t) = k
  BY <1>1, <1>2, <1>3, <1>4, <1>5 DEF Within
<1> QED
  BY <1>6 DEF k

LEMMA TodayIsOne == OverviewsInv /\ IsListable => TodayAgrees
<1> SUFFICES ASSUME ClockTypeOK, NeverMarkedOverdue, IsListable, NEW z \in Zones
             PROVE  /\ OnPanel("today", z) <=> OnTab("today", z)
                    /\ TimeBadge(z) = "Due today" => OnPanel("today", z)
                    /\ TimeBadge(z) \in {"Due tomorrow", "Due"} =>
                         (OnPanel("today", z) <=> IsSameBusinessDay(z, schedule.start, now))
  BY DEF OverviewsInv, TimesInv, TodayAgrees
<1>1. now \in Int /\ schedule.start \in Int /\ schedule.expected \in Int
  BY TimesAreNumbers
<1>2. Within(schedule.start, BusinessDayRange(z, now)) <=> DayOf(z, schedule.start) = DayOf(z, now)
  BY <1>1, TodaysRange
<1>3. Within(schedule.expected, BusinessDayRange(z, now))
        <=> DayOf(z, schedule.expected) = DayOf(z, now)
  BY <1>1, TodaysRange
<1>4. InToday(z) <=> bookingStatus # "CANCELLED"
                     /\ (DayOf(z, schedule.start) = DayOf(z, now)
                         \/ DayOf(z, schedule.expected) = DayOf(z, now))
  BY <1>2, <1>3 DEF InToday
<1>5. IsSameBusinessDay(z, schedule.start, now) <=> DayOf(z, schedule.start) = DayOf(z, now)
  BY DEF IsSameBusinessDay, DayOf
<1> QED
  BY <1>4, <1>5, Badge, Panels

LEMMA WindowsAreDays == OverviewsInv /\ IsListable => WindowsAreLocalDays
<1> SUFFICES ASSUME ClockTypeOK, IsListable, NEW z \in Zones,
                    NEW from \in Int, NEW to \in Int
             PROVE  LET day == DayOf(z, schedule.start) IN
                    /\ InReport("booking-history", Window(z, from, to)) <=> from =< day /\ day =< to
                    /\ InReport("booking-history", Window(z, from, NoDay)) <=> from =< day
                    /\ InReport("booking-history", Window(z, NoDay, to)) <=> day =< to
  <2>1. ASSUME ClockTypeOK, NEW z \in Zones
        PROVE  \A k \in (DayOf(z, schedule.start) - 1) .. (DayOf(z, schedule.start) + 1) : k \in Int
    BY <2>1, TimesAreNumbers, InDays
  <2> QED
    BY <2>1 DEF OverviewsInv, TimesInv, WindowsAreLocalDays, DayOf
<1> DEFINE day == DayOf(z, schedule.start)
<1>1. schedule.start \in Int /\ day \in Int /\ NoDay \notin Int
  BY TimesAreNumbers, InDays, OverviewsAssumption
<1>2. DayStart(z, from) \in Int /\ (DayStart(z, from) =< schedule.start <=> from =< day)
  BY <1>1, Lookups, InDays
<1>3. DayStart(z, to) \in Int /\ DayOf(z, DayStart(z, to)) = to
  <2>1. DayStart(z, to) \in Int /\ to + 1 \in Int /\ DayOf(z, DayStart(z, to)) \in Int
    BY Lookups, InDays
  <2>2. to =< DayOf(z, DayStart(z, to))
    BY <2>1, InDays
  <2>3. ~(to + 1 =< DayOf(z, DayStart(z, to)))
    <3>1. DayStart(z, to) < DayStart(z, to + 1)
      BY DaysFollow
    <3>2. DayStart(z, to + 1) =< DayStart(z, to) <=> to + 1 =< DayOf(z, DayStart(z, to))
      BY <2>1, InDays
    <3>3. DayStart(z, to + 1) \in Int
      BY <2>1, Lookups
    <3> QED
      BY <2>1, <3>1, <3>2, <3>3
  <2> QED
    BY <2>1, <2>2, <2>3
<1>4. DayStart(z, to + 1) \in Int /\ (schedule.start < DayStart(z, to + 1) <=> day =< to)
  <2>1. to + 1 \in Int
    OBVIOUS
  <2>2. DayStart(z, to + 1) \in Int
    BY <2>1, Lookups
  <2>3. DayStart(z, to + 1) =< schedule.start <=> to + 1 =< day
    BY <1>1, <2>1, InDays
  <2> HIDE DEF day
  <2> QED
    BY <1>1, <2>2, <2>3
<1>5. BusinessDayRange(z, ZonedLocalToDate(z, to * Day)).end = DayStart(z, to + 1)
  BY <1>3, TypedMidnight, DayRangeIs
<1>6. from # NoDay /\ to # NoDay /\ DayStart(z, from) # NoDay /\ DayStart(z, to + 1) # NoDay
  BY <1>1, <1>2, <1>4
<1>7. /\ Window(z, from, to) = [from |-> DayStart(z, from), to |-> DayStart(z, to + 1)]
      /\ Window(z, from, NoDay) = [from |-> DayStart(z, from), to |-> NoDay]
      /\ Window(z, NoDay, to) = [from |-> NoDay, to |-> DayStart(z, to + 1)]
  BY <1>5, <1>6, TypedMidnight DEF Window
<1> HIDE DEF day
<1>8. /\ InWindow(schedule.start, Window(z, from, to)) <=> from =< day /\ day =< to
      /\ InWindow(schedule.start, Window(z, from, NoDay)) <=> from =< day
      /\ InWindow(schedule.start, Window(z, NoDay, to)) <=> day =< to
  BY <1>2, <1>4, <1>6, <1>7 DEF InWindow
<1> QED
  BY <1>8, Reports DEF day

LEMMA NumbersAreSensible == OverviewsInv /\ IsListable => NumbersMakeSense
<1> SUFFICES ASSUME OverviewsInv, IsListable
             PROVE  NumbersMakeSense
  OBVIOUS
<1>0. ClockTypeOK /\ TimesInOrder /\ NeverMarkedOverdue /\ ReturnedIsCompleted
  BY DEF OverviewsInv, TimesInv
<1>1. /\ now \in Nat /\ schedule.expected \in Nat
      /\ schedule.collection \in Nat \cup {NoCollection}
      /\ actualReturn \in Nat \cup {NotReturned}
  BY <1>0, TimesAreNumbers
<1>2. ASSUME InReport("checked-out", AnyTime)
      PROVE  DaysOut >= 0
  <2>1. bookingStatus = "CHECKED_OUT"
    BY <1>0, <1>2, Reports DEF OutStatuses, NeverMarkedOverdue
  <2>2. schedule.collection \in Nat /\ now - schedule.collection \in Nat
    BY <1>0, <1>1, <2>1 DEF TimesInOrder, HasBeenCollected
  <2>3. Midnight(0) = 0
    BY DayAssumption DEF Midnight
  <2> QED
    BY <2>2, <2>3, PastMidnight DEF DaysOut
<1>3. ASSUME InReport("due-returns", AnyTime)
      PROVE  TicksUntilDue >= 0 /\ DaysLate = 0
  <2>1. schedule.expected >= now
    BY <1>0, <1>3, DueReturns
  <2> QED
    BY <1>1, <2>1 DEF TicksUntilDue, DaysLate
<1>4. ASSUME bookingStatus = "COMPLETED"
      PROVE  TimeOut = actualReturn - schedule.collection
  BY <1>0, <1>1, <1>4 DEF TimesInOrder, HasBeenCollected, TimeOut, NoCollection, NotReturned
<1>5. ASSUME CountedLate(AnyTime)
      PROVE  bookingStatus = "COMPLETED" /\ actualReturn > schedule.expected
  <2>1. actualReturn # NotReturned /\ ReturnPunctuality(schedule.expected, actualReturn) = "late"
    BY <1>5 DEF CountedLate, Punctuality
  <2>2. bookingStatus = "COMPLETED" /\ actualReturn \in Nat
    BY <1>0, <1>1, <2>1 DEF ReturnedIsCompleted
  <2> DEFINE grace == ReturnGraceMinutes * Minute
             difference == actualReturn - schedule.expected
  <2>3. grace \in Nat /\ difference \in Int
    BY <1>1, <2>2, TimeAssumption
  <2>4. ReturnPunctuality(schedule.expected, actualReturn)
          = CASE difference > grace -> "late" [] difference < -grace -> "early" [] OTHER -> "on-time"
    BY DEF ReturnPunctuality
  <2>5. difference > grace
    <3> HIDE DEF difference, grace
    <3> QED
      BY <2>1, <2>3, <2>4
  <2> QED
    BY <1>1, <2>2, <2>3, <2>5
<1> QED
  BY <1>2, <1>3, <1>4, <1>5 DEF NumbersMakeSense

LEMMA OverviewsOfOne == OverviewsInv => OverviewsAgree
BY LatenessIsOne, TodayIsOne, WindowsAreDays, NumbersAreSensible DEF OverviewsAgree

(***************************************************************************)
(* The dashboard, the tabs, the badges and the reports give one answer     *)
(* about a booking, in any time zone that does not change its clocks over  *)
(* a midnight.                                                             *)
(***************************************************************************)
THEOREM OverviewsGiveOneAnswer == ClockSpec => []OverviewsAgree
<1>1. ClockInit => OverviewsInv
  BY DEF ClockInit, OverviewsInv, TimesInv, ClockTypeOK, TimesInOrder, HasBeenCollected,
         BookingStatuses, NeverMarkedOverdue, ReturnedIsCompleted
<1>2. OverviewsInv /\ [ClockNext]_clockVars => OverviewsInv'
  BY TimesInductive, NeverMarkedStep, ReturnedStep DEF OverviewsInv
<1> QED
  BY <1>1, <1>2, OverviewsOfOne, PTL DEF ClockSpec
=============================================================================
