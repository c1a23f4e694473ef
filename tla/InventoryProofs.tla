--------------------------- MODULE InventoryProofs ----------------------------
(***************************************************************************)
(* Proofs about the inventory, for any number of kits, assets, bookings and*)
(* edits under way, and however many of them cross.                        *)
(*                                                                         *)
(* The invariant says what each asset and each kit may be relied on for    *)
(* while no edits of it crossed, and of each edit under way that what it   *)
(* decided on still holds, or that it has missed a change of its kit or    *)
(* its asset: then its write makes them crossed.                           *)
(***************************************************************************)
EXTENDS Inventory, FiniteSetTheorems, TLAPS

Records ==
    [op : AssetOps \cup KitOps \cup PairOps \cup {"none"}, kit : Kits \cup {None},
     asset : Assets \cup {None}, to : KitStatuses \cup AssetStatuses \cup {"none", "required", "optional"},
     moved : BOOLEAN, missed : BOOLEAN]

KitRows   == [status : KitStatuses, deleted : BOOLEAN]
AssetRows == [status : AssetStatuses \cup {"ABSENT"}, deleted : BOOLEAN,
              logged : AssetStatuses \cup {"ABSENT"}]

BookingShape ==
    /\ hold \in [Bookings -> Holds]
    /\ kitOf \in [Bookings -> Kits \cup {None}]
    /\ docKit \in [Bookings -> Kits \cup {None}]
    /\ lines \in [Bookings -> SUBSET Assets]
    /\ left \in [Bookings -> SUBSET Assets]
    /\ strayed \subseteq Assets

InventoryShape ==
    /\ kit \in [Kits -> KitRows]
    /\ asset \in [Assets -> AssetRows]
    /\ maintenance \subseteq Assets
    /\ member \in [Kits \X Assets -> Memberships]
    /\ call \in [Clerks -> Records]
    /\ crossed \subseteq Kits \cup Assets
    /\ BookingShape

\* What an edit is about, and the rows it names, which never go again.
Formed(r) ==
    /\ r.op \in KitOps \cup PairOps => r.kit \in Kits
    /\ r.op \in AssetOps \cup PairOps => r.asset \in Assets
    /\ r.op \in KitOps => r.asset = None
    /\ r.op \in AssetOps => r.kit = None
    /\ r.op = "updateKit" => r.to \in KitStatuses
    /\ r.op = "updateAsset" => r.to \in AssetStatuses
    /\ r.op \in {"addKitAsset", "updateKitAsset"} => r.to \in {"required", "optional"}
    /\ r.op \in AssetOps \cup {"addKitAsset"} => asset[r.asset].status # "ABSENT"
    /\ r.op \in {"updateKitAsset", "removeKitAsset"} => member[r.kit, r.asset] # "never"

\* What it decided on still holds.
Current(r) ==
    /\ r.op = "updateKit" => r.to \in AllowedKitStatusTransitions(r.kit)
    /\ r.op = "removeKit" => KitRemovable(r.kit)
    /\ r.op = "addKitAsset" => KitAcceptsMembers(r.kit) /\ Assignable(r.asset)
    /\ r.op = "removeKitAsset" => ~ContentsLocked(r.kit)
    /\ r.op = "updateAsset" => /\ r.to \in AllowedStatusTransitions(r.asset)
                               /\ r.moved <=> r.to # asset[r.asset].status
    /\ r.op = "removeAsset" => AssetRemovable(r.asset)

EditSound(r) == Formed(r) /\ (r.missed \/ Current(r))

OneKit == \A a \in Assets, k, l \in Kits : IsMember(k, a) /\ IsMember(l, a) => k = l

\* Only an asset that there is was ever in a kit.
Present == \A k \in Kits, a \in Assets : member[k, a] # "never" => asset[a].status # "ABSENT"

AssetSound(a) ==
    a \notin crossed =>
        /\ InKit(a) => ~asset[a].deleted /\ asset[a].status # "RETIRED"
        /\ asset[a].logged = asset[a].status
        /\ asset[a].status = "CHECKED_OUT" =>
              ~asset[a].deleted /\ \E b \in Bookings : hold[b] = "OUT" /\ a \in left[b]
        /\ \A b \in Bookings :
              hold[b] = "OUT" /\ a \in lines[b] \ strayed =>
                  /\ IsMember(kitOf[b], a)
                  /\ a \in left[b] /\ kitOf[b] \notin crossed => asset[a].status = "CHECKED_OUT"

\* An uncrossed kit is out with one booking at a time.
KitSound(k) ==
    k \notin crossed =>
        /\ Members(k) # {} => ~kit[k].deleted /\ kit[k].status # "RETIRED"
        /\ \A b \in Bookings : hold[b] = "OUT" /\ kitOf[b] = k => kit[k].status = "CHECKED_OUT"
        /\ \A b, d \in Bookings : hold[b] = "OUT" /\ hold[d] = "OUT" /\ kitOf[b] = k /\ kitOf[d] = k
                                => b = d

BookingSound(b) ==
    /\ hold[b] # "none" => kitOf[b] \in Kits
    /\ hold[b] = "OUT" => lines[b] # {}
    /\ lines[b] # {} => docKit[b] \in Kits
    /\ left[b] \subseteq lines[b]
    /\ hold[b] # "OUT" => left[b] = {}

InventoryInv ==
    /\ InventoryShape
    /\ OneKit
    /\ Present
    /\ \A a \in Assets : AssetSound(a)
    /\ \A k \in Kits : KitSound(k)
    /\ \A b \in Bookings : BookingSound(b)
    /\ \A c \in Clerks : EditSound(call[c])

USE InventoryAssumption

LEMMA IdleIsARecord == Idle \in Records /\ EditSound(Idle)
BY DEF Idle, Records, EditSound, Formed, Current, KitOps, AssetOps, PairOps

-----------------------------------------------------------------------------
(* What a step means to the edits under way *)

\* Nothing that an edit of the kit, or of the asset, reads has changed.
SameKit(k)   == /\ kit'[k] = kit[k] /\ \A a \in Assets : member'[k, a] = member[k, a]
                /\ HasLiveBooking(k)' <=> HasLiveBooking(k)
                /\ ContentsLocked(k)' <=> ContentsLocked(k)
SameAsset(a) == /\ asset'[a] = asset[a] /\ (a \in maintenance' <=> a \in maintenance)
                /\ \A k \in Kits : member'[k, a] = member[k, a]

\* Rows stay: an asset there is, and a membership there has been.
RowsStay ==
    /\ \A a \in Assets : asset[a].status # "ABSENT" => asset'[a].status # "ABSENT"
    /\ \A k \in Kits, a \in Assets : member[k, a] # "never" => member'[k, a] # "never"

LEMMA SameKitReads ==
    ASSUME NEW k \in Kits, SameKit(k)
    PROVE  /\ AllowedKitStatusTransitions(k)' = AllowedKitStatusTransitions(k)
           /\ KitRemovable(k)' <=> KitRemovable(k)
           /\ KitAcceptsMembers(k)' <=> KitAcceptsMembers(k)
           /\ ContentsLocked(k)' <=> ContentsLocked(k)
<1>1. Members(k)' = Members(k) /\ kit'[k] = kit[k]
  BY DEF SameKit, Members, IsMember
<1>2. (HasLiveBooking(k)' <=> HasLiveBooking(k)) /\ (ContentsLocked(k)' <=> ContentsLocked(k))
  BY DEF SameKit
<1>3. AllowedKitStatusTransitions(k)' = AllowedKitStatusTransitions(k)
  BY <1>1, <1>2 DEF AllowedKitStatusTransitions, ManualKitStatuses
<1>4. KitRemovable(k)' <=> KitRemovable(k)
  BY <1>1, <1>2 DEF KitRemovable
<1>5. KitAcceptsMembers(k)' <=> KitAcceptsMembers(k)
  BY <1>1, <1>2 DEF KitAcceptsMembers
<1> QED
  BY <1>2, <1>3, <1>4, <1>5

LEMMA SameAssetReads ==
    ASSUME NEW a \in Assets, SameAsset(a)
    PROVE  /\ AllowedStatusTransitions(a)' = AllowedStatusTransitions(a)
           /\ Assignable(a)' <=> Assignable(a)
           /\ AssetRemovable(a)' <=> AssetRemovable(a)
<1>1. InKit(a)' <=> InKit(a)
  BY DEF SameAsset, InKit, IsMember
<1> QED
  BY <1>1 DEF SameAsset, AllowedStatusTransitions, Assignable, AssetRemovable

LEMMA EditStays ==
    ASSUME NEW r \in Records, EditSound(r), RowsStay,
           r.missed \/ /\ r.kit \in Kits => SameKit(r.kit)
                       /\ r.asset \in Assets => SameAsset(r.asset)
    PROVE  Formed(r)' /\ (r.missed \/ Current(r)')
<1>1. Formed(r)'
  BY DEF EditSound, Formed, RowsStay, AssetOps, PairOps
<1>2. ASSUME ~r.missed
      PROVE  Current(r)'
  <2>1. Formed(r) /\ Current(r)
    BY <1>2 DEF EditSound
  <2>2. CASE r.op \in KitOps
    <3>1. r.kit \in Kits /\ SameKit(r.kit)
      BY <1>2, <2>1, <2>2 DEF Formed
    <3> QED
      BY <2>1, <2>2, <3>1, SameKitReads DEF Current, KitOps
  <2>3. CASE r.op \in AssetOps
    <3>1. r.asset \in Assets /\ SameAsset(r.asset)
      BY <1>2, <2>1, <2>3 DEF Formed
    <3>2. asset'[r.asset] = asset[r.asset]
      BY <3>1 DEF SameAsset
    <3> QED
      BY <2>1, <2>3, <3>1, <3>2, SameAssetReads DEF Current, AssetOps
  <2>4. CASE r.op \in PairOps
    <3>1. r.kit \in Kits /\ SameKit(r.kit) /\ r.asset \in Assets /\ SameAsset(r.asset)
      BY <1>2, <2>1, <2>4 DEF Formed
    <3> QED
      BY <2>1, <2>4, <3>1, SameKitReads, SameAssetReads DEF Current, PairOps
  <2>5. CASE r.op = "none"
    BY <2>5 DEF Current
  <2> QED
    BY <2>2, <2>3, <2>4, <2>5 DEF Records
<1> QED
  BY <1>1, <1>2

\* A commit that changes these things, and perhaps ends the edit c.
LEMMA EditsStay ==
    ASSUME InventoryInv, RowsStay, NEW things,
           \A k \in Kits \ things : SameKit(k),
           \A a \in Assets \ things : SameAsset(a),
           \/ call' = Touch(things)
           \/ \E c \in Clerks : call' = [Touch(things) EXCEPT ![c] = Idle]
    PROVE  /\ call' \in [Clerks -> Records]
           /\ \A c \in Clerks : EditSound(call[c])'
<1>1. ASSUME NEW c \in Clerks
      PROVE  \E r \in Records : Touch(things)[c] = r /\ EditSound(r)'
  <2>1. call[c] \in Records /\ EditSound(call[c])
    BY DEF InventoryInv, InventoryShape
  <2>2. PICK r \in Records : r = call[c]
    BY <2>1
  <2>3. EditSound(r)
    BY <2>1, <2>2
  <2>4. CASE r.kit \in things \/ r.asset \in things
    <3> DEFINE late == [r EXCEPT !.missed = TRUE]
    <3>1. Touch(things)[c] = late
      BY <2>2, <2>4 DEF Touch
    <3>2. /\ late \in Records /\ late.missed /\ late.op = r.op /\ late.kit = r.kit
          /\ late.asset = r.asset /\ late.to = r.to
      BY DEF Records
    <3> HIDE DEF late
    <3>3. EditSound(late)
      BY <2>3, <3>2 DEF EditSound, Formed
    <3>4. EditSound(late)'
      BY <3>2, <3>3, EditStays DEF EditSound
    <3> QED
      BY <3>1, <3>2, <3>4
  <2>5. CASE ~(r.kit \in things \/ r.asset \in things)
    <3>1. Touch(things)[c] = r
      BY <2>2, <2>5 DEF Touch
    <3>2. EditSound(r)'
      BY <2>3, <2>5, EditStays DEF EditSound
    <3> QED
      BY <3>1, <3>2
  <2> QED
    BY <2>4, <2>5
<1>2. \A c \in Clerks : \E r \in Records : call'[c] = r /\ EditSound(r)'
  <2>1. Idle \in Records /\ EditSound(Idle)'
    BY IdleIsARecord DEF Idle, EditSound, Formed, Current, KitOps, AssetOps, PairOps
  <2>2. Touch(things) = [c \in Clerks |-> Touch(things)[c]]
    BY DEF Touch
  <2>3. \A c \in Clerks : call'[c] = Touch(things)[c] \/ call'[c] = Idle
    BY <2>2
  <2> QED
    BY <1>1, <2>1, <2>3
<1>3. call' \in [Clerks -> Records]
  <2>1. call' = [c \in Clerks |-> call'[c]]
    BY DEF Touch
  <2> QED
    BY <1>2, <2>1
<1> QED
  BY <1>2, <1>3

\* Where no booking changes, what a kit's bookings mean to it does not.
LEMMA SameBookings ==
    ASSUME UNCHANGED <<hold, kitOf>>, NEW k
    PROVE  (HasLiveBooking(k)' <=> HasLiveBooking(k)) /\ (ContentsLocked(k)' <=> ContentsLocked(k))
BY DEF HasLiveBooking, ContentsLocked

LEMMA BookingsStaySound ==
    ASSUME InventoryInv, UNCHANGED bookingVars
    PROVE  BookingShape' /\ (\A b \in Bookings : BookingSound(b)') /\ UNCHANGED <<hold, kitOf, lines, left, strayed>>
BY DEF bookingVars, InventoryInv, InventoryShape, BookingShape, BookingSound

\* Where no booking changes, an asset stays sound that is not checked out or back,
\* and does not leave a kit that is out.
LEMMA AssetStaysSound ==
    ASSUME InventoryInv, UNCHANGED <<hold, kitOf, lines, left, strayed>>, crossed \subseteq crossed',
           NEW a \in Assets,
           a \notin crossed' =>
               /\ InKit(a)' => ~asset'[a].deleted /\ asset'[a].status # "RETIRED"
               /\ asset'[a].logged = asset'[a].status
               /\ asset'[a].status = "CHECKED_OUT" <=> asset[a].status = "CHECKED_OUT"
               /\ asset'[a].status = "CHECKED_OUT" => asset'[a].deleted = asset[a].deleted
               /\ \A k \in Kits : IsMember(k, a) /\ (\E b \in Bookings : hold[b] = "OUT" /\ kitOf[b] = k)
                                => IsMember(k, a)'
    PROVE  AssetSound(a)'
<1> SUFFICES ASSUME a \notin crossed'
             PROVE  AssetSound(a)'
  BY DEF AssetSound
<1>1. AssetSound(a) /\ a \notin crossed
  BY DEF InventoryInv
<1>2. \A b \in Bookings : hold[b] = "OUT" => kitOf[b] \in Kits
  BY DEF InventoryInv, BookingSound
<1>3. ASSUME NEW b \in Bookings, hold'[b] = "OUT", a \in lines'[b] \ strayed'
      PROVE  /\ IsMember(kitOf[b], a)'
             /\ a \in left'[b] /\ kitOf'[b] \notin crossed' => asset'[a].status = "CHECKED_OUT"
  <2>1. hold[b] = "OUT" /\ a \in lines[b] \ strayed /\ kitOf[b] \in Kits
    BY <1>2, <1>3
  <2>2. IsMember(kitOf[b], a) /\ (a \in left[b] /\ kitOf[b] \notin crossed => asset[a].status = "CHECKED_OUT")
    BY <1>1, <2>1 DEF AssetSound
  <2>3. PICK k \in Kits : k = kitOf[b]
    BY <2>1
  <2>4. IsMember(k, a)'
    BY <2>1, <2>2, <2>3
  <2>5. IsMember(kitOf[b], a)'
    BY <2>3, <2>4 DEF IsMember
  <2> QED
    BY <2>2, <2>5
<1>4. asset'[a].status = "CHECKED_OUT" =>
          ~asset'[a].deleted /\ \E b \in Bookings : hold'[b] = "OUT" /\ a \in left'[b]
  BY <1>1 DEF AssetSound
<1> QED
  BY <1>3, <1>4 DEF AssetSound

\* Where no booking changes, a kit stays sound that gets no other status than it
\* may have, and whose bookings matter no more.
LEMMA KitStaysSound ==
    ASSUME InventoryInv, UNCHANGED <<hold, kitOf>>, crossed \subseteq crossed', NEW k \in Kits,
           k \notin crossed' =>
               /\ Members(k)' # {} => ~kit'[k].deleted /\ kit'[k].status # "RETIRED"
               /\ kit[k].status = "CHECKED_OUT" => kit'[k].status = "CHECKED_OUT"
    PROVE  KitSound(k)'
<1>1. KitSound(k)
  BY DEF InventoryInv
<1> QED
  BY <1>1 DEF KitSound

\* Where only the edits under way change, everything stays.
LEMMA SoundStays ==
    ASSUME InventoryInv, UNCHANGED <<kit, asset, member, hold, kitOf, lines, left, strayed, crossed>>
    PROVE  OneKit' /\ Present' /\ (\A a \in Assets : AssetSound(a)') /\ (\A k \in Kits : KitSound(k)')
<1>1. OneKit' /\ Present'
  BY DEF InventoryInv, OneKit, Present, IsMember
<1>2. ASSUME NEW a \in Assets
      PROVE  AssetSound(a)'
  <2>1. (InKit(a)' <=> InKit(a)) /\ \A k \in Kits : IsMember(k, a)' <=> IsMember(k, a)
    BY DEF InKit, IsMember
  <2>2. AssetSound(a)
    BY DEF InventoryInv
  <2>3. a \notin crossed => /\ InKit(a)' => ~asset'[a].deleted /\ asset'[a].status # "RETIRED"
                            /\ asset'[a].logged = asset'[a].status
    BY <2>1, <2>2 DEF AssetSound
  <2> QED
    BY <2>1, <2>3, AssetStaysSound
<1>3. ASSUME NEW k \in Kits
      PROVE  KitSound(k)'
  <2>1. Members(k)' = Members(k) /\ KitSound(k)
    BY DEF Members, IsMember, InventoryInv
  <2> QED
    BY <2>1, KitStaysSound DEF KitSound
<1> QED
  BY <1>1, <1>2, <1>3

-----------------------------------------------------------------------------
(* Edits *)

\* An edit begins, or ends without effect: nothing but its own record changes.
LEMMA EditBegins ==
    ASSUME InventoryInv, NEW c \in Clerks, NEW r \in Records, EditSound(r),
           call' = [call EXCEPT ![c] = r],
           UNCHANGED <<kit, asset, maintenance, member, bookingVars, crossed>>
    PROVE  InventoryInv'
<1>0. /\ BookingShape' /\ (\A b \in Bookings : BookingSound(b)')
      /\ UNCHANGED <<hold, kitOf, lines, left, strayed>>
  BY BookingsStaySound
<1>1. InventoryShape'
  BY <1>0 DEF InventoryInv, InventoryShape
<1>2. OneKit' /\ Present' /\ (\A a \in Assets : AssetSound(a)') /\ (\A k \in Kits : KitSound(k)')
  BY <1>0, SoundStays
<1>3. ASSUME NEW d \in Clerks
      PROVE  EditSound(call[d])'
  <2>1. PICK s \in Records : s = call'[d] /\ EditSound(s)
    BY DEF InventoryInv, InventoryShape
  <2>2. RowsStay /\ (\A k \in Kits : SameKit(k)) /\ (\A a \in Assets : SameAsset(a))
    BY <1>0, SameBookings DEF RowsStay, SameKit, SameAsset
  <2>3. EditSound(s)'
    BY <2>1, <2>2, EditStays DEF EditSound
  <2> QED
    BY <2>1, <2>3
<1> QED
  BY <1>0, <1>1, <1>2, <1>3 DEF InventoryInv

LEMMA KitReads ==
    ASSUME InventoryInv, NEW c \in Clerks, NEW k \in Kits,
           ReadForUpdateKit(c, k) \/ ReadForRemoveKit(c, k)
    PROVE  InventoryInv'
<1>1. ASSUME NEW to \in AllowedKitStatusTransitions(k),
             Read(c, [Idle EXCEPT !.op = "updateKit", !.kit = k, !.to = to])
      PROVE  InventoryInv'
  <2> DEFINE r == [Idle EXCEPT !.op = "updateKit", !.kit = k, !.to = to]
  <2>1. to \in KitStatuses
    BY DEF AllowedKitStatusTransitions, ManualKitStatuses, InventoryInv, InventoryShape, KitRows
  <2>2. r \in Records /\ r.op = "updateKit" /\ r.kit = k /\ r.asset = None /\ r.to = to
    BY <2>1 DEF Idle, Records, KitOps
  <2>3. Read(c, r)
    BY <1>1
  <2> HIDE DEF r
  <2>4. EditSound(r)
    BY <1>1, <2>1, <2>2 DEF EditSound, Formed, Current, KitOps, AssetOps, PairOps
  <2> QED
    BY <2>2, <2>3, <2>4, EditBegins DEF Read
<1>2. CASE ReadForRemoveKit(c, k)
  <2> DEFINE r == [Idle EXCEPT !.op = "removeKit", !.kit = k]
  <2>1. r \in Records /\ r.op = "removeKit" /\ r.kit = k /\ r.asset = None
    BY DEF Idle, Records, KitOps
  <2>2. Read(c, r) /\ KitRemovable(k)
    BY <1>2 DEF ReadForRemoveKit
  <2> HIDE DEF r
  <2>3. EditSound(r)
    BY <2>1, <2>2 DEF EditSound, Formed, Current, KitOps, AssetOps, PairOps
  <2> QED
    BY <2>1, <2>2, <2>3, EditBegins DEF Read
<1> QED
  BY <1>1, <1>2 DEF ReadForUpdateKit

LEMMA AssetReads ==
    ASSUME InventoryInv, NEW c \in Clerks, NEW a \in Assets,
           ReadForUpdateAsset(c, a) \/ ReadForRemoveAsset(c, a)
    PROVE  InventoryInv'
<1>1. ASSUME NEW to \in AllowedStatusTransitions(a), asset[a].status # "ABSENT",
             Read(c, [Idle EXCEPT !.op = "updateAsset", !.asset = a, !.to = to,
                                  !.moved = to # asset[a].status])
      PROVE  InventoryInv'
  <2>0. PICK moved \in BOOLEAN : moved <=> to # asset[a].status
    OBVIOUS
  <2> DEFINE r == [Idle EXCEPT !.op = "updateAsset", !.asset = a, !.to = to, !.moved = moved]
  <2>1. to \in AssetStatuses
    BY <1>1 DEF AllowedStatusTransitions, ManualAssetStatuses, InventoryInv, InventoryShape, AssetRows
  <2>2. /\ r \in Records /\ r.op = "updateAsset" /\ r.kit = None /\ r.asset = a /\ r.to = to
        /\ r.moved = moved
    BY <2>1 DEF Idle, Records, AssetOps
  <2>3. Read(c, r)
    <3>1. moved = (to # asset[a].status)
      BY <2>0
    <3> QED
      BY <1>1, <3>1
  <2> HIDE DEF r
  <2>4. EditSound(r)
    BY <1>1, <2>0, <2>1, <2>2 DEF EditSound, Formed, Current, KitOps, AssetOps, PairOps
  <2> QED
    BY <2>2, <2>3, <2>4, EditBegins DEF Read
<1>2. CASE ReadForRemoveAsset(c, a)
  <2> DEFINE r == [Idle EXCEPT !.op = "removeAsset", !.asset = a]
  <2>1. r \in Records /\ r.op = "removeAsset" /\ r.kit = None /\ r.asset = a
    BY DEF Idle, Records, AssetOps
  <2>2. Read(c, r) /\ AssetRemovable(a) /\ asset[a].status # "ABSENT"
    BY <1>2 DEF ReadForRemoveAsset
  <2> HIDE DEF r
  <2>3. EditSound(r)
    BY <2>1, <2>2 DEF EditSound, Formed, Current, KitOps, AssetOps, PairOps
  <2> QED
    BY <2>1, <2>2, <2>3, EditBegins DEF Read
<1> QED
  BY <1>1, <1>2 DEF ReadForUpdateAsset

LEMMA PairReads ==
    ASSUME InventoryInv, NEW c \in Clerks, NEW k \in Kits, NEW a \in Assets,
           \/ ReadForAddKitAsset(c, k, a) \/ ReadForUpdateKitAsset(c, k, a)
           \/ ReadForRemoveKitAsset(c, k, a)
    PROVE  InventoryInv'
<1>1. ASSUME NEW role \in {"required", "optional"}, KitAcceptsMembers(k), Assignable(a),
             Read(c, [Idle EXCEPT !.op = "addKitAsset", !.kit = k, !.asset = a, !.to = role])
      PROVE  InventoryInv'
  <2> DEFINE r == [Idle EXCEPT !.op = "addKitAsset", !.kit = k, !.asset = a, !.to = role]
  <2>1. r \in Records /\ r.op = "addKitAsset" /\ r.kit = k /\ r.asset = a /\ r.to = role
    BY DEF Idle, Records, PairOps
  <2>2. Read(c, r)
    BY <1>1
  <2> HIDE DEF r
  <2>3. EditSound(r)
    BY <1>1, <2>1 DEF EditSound, Formed, Current, KitOps, AssetOps, PairOps, Assignable
  <2> QED
    BY <2>1, <2>2, <2>3, EditBegins DEF Read
<1>2. ASSUME NEW role \in {"required", "optional"}, IsMember(k, a),
             Read(c, [Idle EXCEPT !.op = "updateKitAsset", !.kit = k, !.asset = a, !.to = role])
      PROVE  InventoryInv'
  <2> DEFINE r == [Idle EXCEPT !.op = "updateKitAsset", !.kit = k, !.asset = a, !.to = role]
  <2>1. r \in Records /\ r.op = "updateKitAsset" /\ r.kit = k /\ r.asset = a /\ r.to = role
    BY DEF Idle, Records, PairOps
  <2>2. Read(c, r)
    BY <1>2
  <2> HIDE DEF r
  <2>3. EditSound(r)
    BY <1>2, <2>1 DEF EditSound, Formed, Current, KitOps, AssetOps, PairOps, IsMember
  <2> QED
    BY <2>1, <2>2, <2>3, EditBegins DEF Read
<1>3. CASE ReadForRemoveKitAsset(c, k, a)
  <2> DEFINE r == [Idle EXCEPT !.op = "removeKitAsset", !.kit = k, !.asset = a]
  <2>1. r \in Records /\ r.op = "removeKitAsset" /\ r.kit = k /\ r.asset = a
    BY DEF Idle, Records, PairOps
  <2>2. Read(c, r) /\ IsMember(k, a) /\ ~ContentsLocked(k)
    BY <1>3 DEF ReadForRemoveKitAsset, MemberRemovable
  <2> HIDE DEF r
  <2>3. EditSound(r)
    BY <2>1, <2>2 DEF EditSound, Formed, Current, KitOps, AssetOps, PairOps, IsMember
  <2> QED
    BY <2>1, <2>2, <2>3, EditBegins DEF Read
<1> QED
  BY <1>1, <1>2, <1>3 DEF ReadForAddKitAsset, ReadForUpdateKitAsset

\* A commit that missed a change makes what it wrote crossed; one that did not
\* is current.
LEMMA CommitKnows ==
    ASSUME InventoryInv, NEW c \in Clerks, Commits(c)
    PROVE  \E r \in Records :
              /\ call[c] = r /\ Formed(r)
              /\ call' = [Touch({r.kit, r.asset} \ {None}) EXCEPT ![c] = Idle]
              /\ r.missed \/ Current(r)
              /\ crossed \subseteq crossed' /\ crossed' \subseteq Kits \cup Assets
              /\ r.missed => {r.kit, r.asset} \ {None} \subseteq crossed'
<1>1. PICK r \in Records : r = call[c] /\ EditSound(r)
  BY DEF InventoryInv, InventoryShape
<1>2. {r.kit, r.asset} \ {None} \subseteq Kits \cup Assets
  BY DEF Records
<1> QED
  BY <1>1, <1>2 DEF Commits, EditSound, InventoryInv, InventoryShape

LEMMA KitWrites ==
    ASSUME InventoryInv, NEW c \in Clerks, WriteKit(c)
    PROVE  InventoryInv'
<1>1. PICK r \in Records :
           /\ call[c] = r /\ Formed(r)
           /\ call' = [Touch({r.kit, r.asset} \ {None}) EXCEPT ![c] = Idle]
           /\ r.missed \/ Current(r)
           /\ crossed \subseteq crossed' /\ crossed' \subseteq Kits \cup Assets
           /\ r.missed => {r.kit, r.asset} \ {None} \subseteq crossed'
  BY CommitKnows DEF WriteKit
<1>2. PICK k \in Kits : r.op \in KitOps /\ k = r.kit /\ {r.kit, r.asset} \ {None} = {k}
  BY <1>1 DEF WriteKit, Formed
<1>3. UNCHANGED <<asset, maintenance, member, bookingVars>>
  BY DEF WriteKit
<1>B. /\ BookingShape' /\ (\A b \in Bookings : BookingSound(b)')
      /\ UNCHANGED <<hold, kitOf, lines, left, strayed>>
  BY <1>3, BookingsStaySound
<1>0. kit \in [Kits -> KitRows]
  BY DEF InventoryInv, InventoryShape
<1> DEFINE old == kit[k]
<1>01. old \in KitRows
  BY <1>0
<1> HIDE DEF old
<1>4. \E row \in KitRows :
          /\ kit' = [kit EXCEPT ![k] = row]
          /\ r.op = "removeKit" => row.status = old.status
          /\ r.op # "removeKit" => row.deleted = old.deleted /\ row.status = r.to
  <2>1. CASE r.op = "removeKit"
    <3> DEFINE row == [old EXCEPT !.deleted = TRUE]
    <3>1. kit' = [kit EXCEPT ![k] = row]
      BY <1>1, <1>2, <2>1 DEF WriteKit, old
    <3>2. row \in KitRows /\ row.status = old.status
      BY <1>01 DEF KitRows
    <3> HIDE DEF row
    <3> QED
      BY <2>1, <3>1, <3>2
  <2>2. CASE r.op # "removeKit"
    <3>1. r.to \in KitStatuses
      BY <1>1, <1>2, <2>2 DEF Formed, KitOps
    <3> DEFINE row == [old EXCEPT !.status = r.to]
    <3>2. kit' = [kit EXCEPT ![k] = row]
      BY <1>1, <1>2, <2>2 DEF WriteKit, old
    <3>3. row \in KitRows /\ row.deleted = old.deleted /\ row.status = r.to
      BY <1>01, <3>1 DEF KitRows
    <3> HIDE DEF row
    <3> QED
      BY <2>2, <3>2, <3>3
  <2> QED
    BY <2>1, <2>2
<1>5. PICK row \in KitRows :
          /\ kit' = [kit EXCEPT ![k] = row]
          /\ r.op = "removeKit" => row.status = old.status
          /\ r.op # "removeKit" => row.deleted = old.deleted /\ row.status = r.to
  BY <1>4
<1> USE DEF old
<1>6. kit' \in [Kits -> KitRows] /\ kit'[k] = row /\ \A l \in Kits \ {k} : kit'[l] = kit[l]
  BY <1>0, <1>5
<1>7. call' \in [Clerks -> Records] /\ \A d \in Clerks : EditSound(call[d])'
  <2>1. RowsStay /\ (\A l \in Kits \ {k} : SameKit(l)) /\ (\A a \in Assets \ {k} : SameAsset(a))
    BY <1>3, <1>B, <1>6, SameBookings DEF RowsStay, SameKit, SameAsset
  <2>2. call' = [Touch({k}) EXCEPT ![c] = Idle]
    BY <1>1, <1>2
  <2> QED
    BY <2>1, <2>2, EditsStay
<1>8. InventoryShape'
  BY <1>1, <1>3, <1>B, <1>6, <1>7 DEF InventoryInv, InventoryShape
<1>9. OneKit' /\ Present' /\ \A a \in Assets : AssetSound(a)'
  <2>2. OneKit' /\ Present'
    BY <1>3 DEF InventoryInv, OneKit, Present, IsMember
  <2>3. ASSUME NEW a \in Assets
        PROVE  AssetSound(a)'
    <3>1. (InKit(a)' <=> InKit(a)) /\ \A l \in Kits : IsMember(l, a)' <=> IsMember(l, a)
      BY <1>3 DEF InKit, IsMember
    <3>2. a \notin crossed' => /\ InKit(a)' => ~asset'[a].deleted /\ asset'[a].status # "RETIRED"
                               /\ asset'[a].logged = asset'[a].status
      BY <1>1, <1>3, <3>1 DEF AssetSound, InventoryInv
    <3> QED
      BY <1>1, <1>3, <1>B, <3>1, <3>2, AssetStaysSound
  <2> QED
    BY <2>2, <2>3
<1>10. ASSUME NEW l \in Kits
       PROVE  KitSound(l)'
  <2>1. Members(l)' = Members(l)
    BY <1>3 DEF Members, IsMember
  <2>2. KitSound(l)
    BY DEF InventoryInv
  <2>3. CASE l # k
    BY <1>1, <1>B, <1>6, <2>1, <2>2, <2>3 DEF KitSound
  <2>4. CASE l = k /\ r.missed
    BY <1>1, <1>2, <2>4 DEF KitSound
  <2>5. CASE l = k /\ ~r.missed /\ r.op = "removeKit"
    <3>1. Members(k) = {} /\ \A b \in Bookings : ~(hold[b] = "OUT" /\ kitOf[b] = k)
      BY <1>1, <1>2, <2>5 DEF Current, KitRemovable, HasLiveBooking
    <3> QED
      BY <1>B, <2>1, <2>5, <3>1 DEF KitSound
  <2>6. CASE l = k /\ ~r.missed /\ r.op # "removeKit"
    <3>1. r.to \in AllowedKitStatusTransitions(k)
      BY <1>1, <1>2, <2>6 DEF Current, KitOps
    <3>2. k \notin crossed' => k \notin crossed
      BY <1>1
    <3>3. row.status = r.to /\ row.deleted = old.deleted
      BY <1>5, <2>6
    <3>4. old.status = "CHECKED_OUT" => r.to = "CHECKED_OUT"
      BY <3>1 DEF AllowedKitStatusTransitions
    <3>5. r.to = "RETIRED" /\ Members(k) # {} => old.status = "RETIRED"
      BY <3>1 DEF AllowedKitStatusTransitions, ManualKitStatuses
    <3> QED
      BY <1>B, <1>6, <2>1, <2>2, <2>6, <3>2, <3>3, <3>4, <3>5 DEF KitSound
  <2> QED
    BY <2>3, <2>4, <2>5, <2>6
<1> QED
  BY <1>B, <1>7, <1>8, <1>9, <1>10 DEF InventoryInv

LEMMA AssetWrites ==
    ASSUME InventoryInv, NEW c \in Clerks, WriteAsset(c)
    PROVE  InventoryInv'
<1>1. PICK r \in Records :
           /\ call[c] = r /\ Formed(r)
           /\ call' = [Touch({r.kit, r.asset} \ {None}) EXCEPT ![c] = Idle]
           /\ r.missed \/ Current(r)
           /\ crossed \subseteq crossed' /\ crossed' \subseteq Kits \cup Assets
           /\ r.missed => {r.kit, r.asset} \ {None} \subseteq crossed'
  BY CommitKnows DEF WriteAsset
<1>2. PICK a \in Assets :
          /\ r.op \in AssetOps /\ a = r.asset /\ {r.kit, r.asset} \ {None} = {a}
          /\ asset[a].status # "ABSENT"
  BY <1>1 DEF WriteAsset, Formed
<1>3. UNCHANGED <<kit, maintenance, member, bookingVars>>
  BY DEF WriteAsset
<1>B. /\ BookingShape' /\ (\A b \in Bookings : BookingSound(b)')
      /\ UNCHANGED <<hold, kitOf, lines, left, strayed>>
  BY <1>3, BookingsStaySound
<1>0. asset \in [Assets -> AssetRows]
  BY DEF InventoryInv, InventoryShape
<1> DEFINE old == asset[a]
<1>01. old \in AssetRows /\ old.status # "ABSENT"
  BY <1>0, <1>2
<1> HIDE DEF old
<1>4. \E row \in AssetRows :
          /\ asset' = [asset EXCEPT ![a] = row] /\ row.status # "ABSENT"
          /\ r.op = "removeAsset" => row.status = old.status /\ row.logged = old.logged
          /\ r.op = "updateAsset" => /\ row.deleted = old.deleted /\ row.status = r.to
                                     /\ row.logged = IF r.moved THEN r.to ELSE old.logged
  <2>1. CASE r.op = "removeAsset"
    <3> DEFINE row == [old EXCEPT !.deleted = TRUE]
    <3>1. asset' = [asset EXCEPT ![a] = row]
      BY <1>1, <1>2, <2>1 DEF WriteAsset, old
    <3>2. row \in AssetRows /\ row.logged = old.logged /\ row.status = old.status
      BY <1>01 DEF AssetRows
    <3> HIDE DEF row
    <3> QED
      BY <1>01, <2>1, <3>1, <3>2
  <2>2. CASE r.op = "updateAsset"
    <3> DEFINE log == IF r.moved THEN r.to ELSE old.logged
               row == [old EXCEPT !.status = r.to, !.logged = log]
    <3>1. r.to \in AssetStatuses /\ r.to # "ABSENT"
      BY <1>1, <2>2 DEF Formed
    <3>2. log \in AssetStatuses \cup {"ABSENT"}
      BY <1>01, <3>1 DEF AssetRows
    <3>3. asset' = [asset EXCEPT ![a] = row]
      BY <1>1, <1>2, <2>2 DEF WriteAsset, old
    <3> HIDE DEF log
    <3>4. /\ row \in AssetRows /\ row.deleted = old.deleted /\ row.status = r.to
          /\ row.logged = log
      BY <1>01, <3>1, <3>2 DEF AssetRows
    <3> HIDE DEF row
    <3> QED
      BY <1>01, <2>2, <3>1, <3>3, <3>4 DEF log
  <2> QED
    BY <1>2, <2>1, <2>2 DEF AssetOps
<1>5. PICK row \in AssetRows :
          /\ asset' = [asset EXCEPT ![a] = row] /\ row.status # "ABSENT"
          /\ r.op = "removeAsset" => row.status = old.status /\ row.logged = old.logged
          /\ r.op = "updateAsset" => /\ row.deleted = old.deleted /\ row.status = r.to
                                     /\ row.logged = IF r.moved THEN r.to ELSE old.logged
  BY <1>4
<1> USE DEF old
<1>6. asset' \in [Assets -> AssetRows] /\ asset'[a] = row /\ \A b \in Assets \ {a} : asset'[b] = asset[b]
  BY <1>0, <1>2, <1>5
<1>7. call' \in [Clerks -> Records] /\ \A d \in Clerks : EditSound(call[d])'
  <2>1. RowsStay /\ (\A l \in Kits \ {a} : SameKit(l)) /\ (\A b \in Assets \ {a} : SameAsset(b))
    BY <1>3, <1>B, <1>5, <1>6, SameBookings DEF RowsStay, SameKit, SameAsset
  <2>2. call' = [Touch({a}) EXCEPT ![c] = Idle]
    BY <1>1, <1>2
  <2> QED
    BY <2>1, <2>2, EditsStay
<1>8. InventoryShape'
  BY <1>1, <1>3, <1>B, <1>6, <1>7 DEF InventoryInv, InventoryShape
<1>9. OneKit' /\ Present'
  BY <1>3, <1>5, <1>6 DEF InventoryInv, OneKit, Present, IsMember
<1>10. ASSUME NEW l \in Kits
       PROVE  KitSound(l)'
  <2>1. Members(l)' = Members(l)
    BY <1>3 DEF Members, IsMember
  <2>2. KitSound(l)
    BY DEF InventoryInv
  <2> QED
    BY <1>1, <1>3, <1>B, <2>1, <2>2 DEF KitSound
<1>11. ASSUME NEW b \in Assets
       PROVE  AssetSound(b)'
  <2>1. (InKit(b)' <=> InKit(b)) /\ \A l \in Kits : IsMember(l, b)' <=> IsMember(l, b)
    BY <1>3 DEF InKit, IsMember
  <2>2. AssetSound(b) /\ (b \notin crossed' => b \notin crossed)
    BY <1>1 DEF InventoryInv
  <2>3. CASE b # a
    <3>1. b \notin crossed' => /\ InKit(b)' => ~asset'[b].deleted /\ asset'[b].status # "RETIRED"
                               /\ asset'[b].logged = asset'[b].status
      BY <1>6, <2>1, <2>2, <2>3 DEF AssetSound
    <3> QED
      BY <1>1, <1>B, <1>6, <2>1, <2>3, <3>1, AssetStaysSound
  <2>4. CASE b = a /\ r.missed
    BY <1>1, <1>2, <2>4 DEF AssetSound
  <2>5. CASE b = a /\ ~r.missed /\ r.op = "removeAsset"
    <3>1. ~InKit(a) /\ asset[a].status # "CHECKED_OUT"
      BY <1>1, <1>2, <2>5 DEF Current, AssetRemovable
    <3>2. row.status = asset[a].status /\ row.logged = asset[a].logged
      BY <1>5, <2>5
    <3> QED
      BY <1>1, <1>B, <1>6, <2>1, <2>2, <2>5, <3>1, <3>2, AssetStaysSound DEF AssetSound
  <2>6. CASE b = a /\ ~r.missed /\ r.op = "updateAsset"
    <3>1. r.to \in AllowedStatusTransitions(a) /\ (r.moved <=> r.to # old.status)
      BY <1>1, <1>2, <2>6 DEF Current
    <3>2. r.to = "CHECKED_OUT" <=> old.status = "CHECKED_OUT"
      BY <3>1 DEF AllowedStatusTransitions, ManualAssetStatuses
    <3>3. r.to = "RETIRED" /\ InKit(a) => old.status = "RETIRED"
      BY <3>1 DEF AllowedStatusTransitions, ManualAssetStatuses
    <3>4. /\ row.deleted = old.deleted /\ row.status = r.to
          /\ old.logged = old.status => row.logged = row.status
      BY <1>5, <2>6, <3>1
    <3> QED
      BY <1>1, <1>B, <1>6, <2>1, <2>2, <2>6, <3>2, <3>3, <3>4, AssetStaysSound DEF AssetSound
  <2> QED
    BY <1>2, <2>3, <2>4, <2>5, <2>6 DEF AssetOps
<1> QED
  BY <1>B, <1>7, <1>8, <1>9, <1>10, <1>11 DEF InventoryInv

LEMMA MemberWrites ==
    ASSUME InventoryInv, NEW c \in Clerks, WriteMember(c)
    PROVE  InventoryInv'
<1>1. PICK r \in Records : r = call[c] /\ EditSound(r)
  BY DEF InventoryInv, InventoryShape
<1>2. /\ r.op \in PairOps /\ r.kit \in Kits /\ r.asset \in Assets
      /\ UNCHANGED <<maintenance, bookingVars>>
  BY <1>1 DEF WriteMember, EditSound, Formed
<1>B. /\ BookingShape' /\ (\A b \in Bookings : BookingSound(b)')
      /\ UNCHANGED <<hold, kitOf, lines, left, strayed>>
  BY <1>2, BookingsStaySound
<1>3. CASE r.op = "addKitAsset" /\ RefusedByIndex(r.kit, r.asset)
  <2>1. call' = [call EXCEPT ![c] = Idle] /\ UNCHANGED <<kit, asset, member, crossed>>
    BY <1>1, <1>3 DEF WriteMember, Ends
  <2> QED
    BY <1>2, <2>1, IdleIsARecord, EditBegins
<1>4. CASE ~(r.op = "addKitAsset" /\ RefusedByIndex(r.kit, r.asset))
  <2>1. PICK k \in Kits, a \in Assets : k = r.kit /\ a = r.asset
    BY <1>2
  <2> DEFINE role == CASE r.op = "addKitAsset"    -> r.to
                       [] r.op = "removeKitAsset" -> Former(member[k, a])
                       [] r.op = "updateKitAsset" -> IF IsMember(k, a) THEN r.to ELSE Former(r.to)
  <2>2. Commits(c) /\ UNCHANGED <<kit, asset, maintenance>>
    BY <1>1, <1>2, <1>4 DEF WriteMember
  <2>3. member' = [member EXCEPT ![<<k, a>>] = role]
    BY <1>1, <1>2, <1>4, <2>1 DEF WriteMember
  <2>4. member \in [Kits \X Assets -> Memberships]
    BY DEF InventoryInv, InventoryShape
  <2>50. /\ r.op \in {"addKitAsset", "updateKitAsset"} => r.to \in {"required", "optional"}
         /\ r.op \in {"updateKitAsset", "removeKitAsset"} => member[k, a] # "never"
         /\ member[k, a] \in Memberships
    BY <1>1, <1>2, <2>1, <2>4 DEF EditSound, Formed
  <2>51. /\ r.op = "addKitAsset" => role = r.to
         /\ r.op = "removeKitAsset" => role = Former(member[k, a])
         /\ r.op = "updateKitAsset" => role = IF IsMember(k, a) THEN r.to ELSE Former(r.to)
    OBVIOUS
  <2> HIDE DEF role
  <2>5. role \in Memberships \ {"never"}
    BY <1>2, <2>50, <2>51 DEF Memberships, PairOps, Former
  <2>6. /\ r.op = "addKitAsset" => ~InKit(a) /\ asset[a].status # "ABSENT"
        /\ r.op # "addKitAsset" => member[k, a] # "never"
    <3>1. r.op = "addKitAsset" => ~InKit(a)
      BY <1>4, <2>1 DEF RefusedByIndex
    <3>2. r.op = "addKitAsset" => asset[a].status # "ABSENT"
      BY <1>1, <2>1 DEF EditSound, Formed
    <3>3. r.op # "addKitAsset" => member[k, a] # "never"
      BY <1>1, <1>2, <2>1 DEF EditSound, Formed, PairOps
    <3> QED
      BY <3>1, <3>2, <3>3
  <2>60. /\ r.op # "addKitAsset" /\ role \in {"required", "optional"} => IsMember(k, a)
         /\ r.op = "updateKitAsset" /\ IsMember(k, a) => role \in {"required", "optional"}
    BY <1>2, <2>50, <2>51 DEF Memberships, PairOps, IsMember, Former
  <2>7. /\ member' \in [Kits \X Assets -> Memberships] /\ member'[k, a] = role
        /\ \A l \in Kits, b \in Assets : l # k \/ b # a => member'[l, b] = member[l, b]
    BY <2>3, <2>4, <2>5
  <2>8. /\ call' = [Touch({k, a}) EXCEPT ![c] = Idle] /\ (r.missed \/ Current(r))
        /\ crossed \subseteq crossed' /\ crossed' \subseteq Kits \cup Assets
        /\ r.missed => {k, a} \subseteq crossed'
    <3>1. {r.kit, r.asset} \ {None} = {k, a}
      BY <2>1
    <3>2. PICK s \in Records :
              /\ call[c] = s /\ Formed(s)
              /\ call' = [Touch({s.kit, s.asset} \ {None}) EXCEPT ![c] = Idle]
              /\ s.missed \/ Current(s)
              /\ crossed \subseteq crossed' /\ crossed' \subseteq Kits \cup Assets
              /\ s.missed => {s.kit, s.asset} \ {None} \subseteq crossed'
      BY <2>2, CommitKnows
    <3>3. s = r
      BY <1>1, <3>2
    <3> QED
      BY <3>1, <3>2, <3>3
  <2>9. call' \in [Clerks -> Records] /\ \A d \in Clerks : EditSound(call[d])'
    <3>1. RowsStay
      BY <2>2, <2>5, <2>7 DEF RowsStay
    <3>2. (\A l \in Kits \ {k, a} : SameKit(l)) /\ (\A b \in Assets \ {k, a} : SameAsset(b))
      BY <1>B, <2>2, <2>7, SameBookings DEF SameKit, SameAsset
    <3> QED
      BY <2>8, <3>1, <3>2, EditsStay
  <2>10. InventoryShape'
    BY <1>B, <2>2, <2>7, <2>8, <2>9 DEF InventoryInv, InventoryShape
  <2>11. Present'
    BY <2>2, <2>6, <2>60, <2>7 DEF InventoryInv, Present
  <2>12. OneKit'
    <3>1. ASSUME NEW b \in Assets, NEW l \in Kits, IsMember(l, b)'
          PROVE  IsMember(l, b) \/ (l = k /\ b = a /\ ~InKit(a))
      <4>1. CASE l # k \/ b # a
        BY <2>7, <3>1, <4>1 DEF IsMember
      <4>2. CASE l = k /\ b = a
        BY <2>6, <2>60, <2>7, <3>1, <4>2 DEF IsMember
      <4> QED
        BY <4>1, <4>2
    <3> QED
      BY <3>1 DEF InventoryInv, OneKit, InKit
  <2>13. ASSUME NEW b \in Assets
         PROVE  AssetSound(b)'
    <3>1. AssetSound(b) /\ (b \notin crossed' => b \notin crossed)
      BY <2>8 DEF InventoryInv
    <3>0. ASSUME \/ ~InKit(b)'
                 \/ ~InKit(b) /\ asset[b].status # "RETIRED" /\ ~asset[b].deleted
                 \/ InKit(b),
                 \A l \in Kits : IsMember(l, b) /\ (\E d \in Bookings : hold[d] = "OUT" /\ kitOf[d] = l)
                                => IsMember(l, b)'
          PROVE  AssetSound(b)'
      <4>1. b \notin crossed' => /\ InKit(b)' => ~asset'[b].deleted /\ asset'[b].status # "RETIRED"
                                 /\ asset'[b].logged = asset'[b].status
        BY <2>2, <3>0, <3>1 DEF AssetSound
      <4> QED
        BY <1>B, <2>2, <2>8, <3>0, <4>1, AssetStaysSound
    <3>2. CASE b # a
      <4>1. (InKit(b)' <=> InKit(b)) /\ \A l \in Kits : IsMember(l, b)' <=> IsMember(l, b)
        BY <2>7, <3>2 DEF InKit, IsMember
      <4> QED
        BY <3>0, <4>1
    <3>3. CASE b = a /\ r.missed
      BY <2>8, <3>3 DEF AssetSound
    <3>4. CASE b = a /\ ~r.missed /\ r.op = "addKitAsset"
      <4>1. asset[a].status = "AVAILABLE" /\ ~asset[a].deleted
        BY <2>1, <2>8, <3>4 DEF Current, Assignable
      <4>2. \A l \in Kits : IsMember(l, a) => IsMember(l, a)'
        BY <2>6, <2>7, <3>4 DEF IsMember, InKit
      <4> QED
        BY <3>0, <3>4, <4>1, <4>2
    <3>5. CASE b = a /\ ~r.missed /\ r.op = "updateKitAsset"
      <4>1. (InKit(a)' <=> InKit(a)) /\ \A l \in Kits : IsMember(l, a)' <=> IsMember(l, a)
        BY <2>6, <2>60, <2>7, <3>5 DEF InKit, IsMember
      <4> QED
        BY <3>0, <3>5, <4>1
    <3>6. CASE b = a /\ ~r.missed /\ r.op = "removeKitAsset"
      <4>1. \A d \in Bookings : ~(hold[d] = "OUT" /\ kitOf[d] = k)
        BY <2>1, <2>8, <3>6 DEF Current, ContentsLocked
      <4>2. InKit(a)' => InKit(a)
        BY <2>6, <2>60, <2>7, <3>6 DEF InKit, IsMember
      <4>3. \A l \in Kits \ {k} : IsMember(l, a)' <=> IsMember(l, a)
        BY <2>7 DEF IsMember
      <4> QED
        BY <3>0, <3>6, <4>1, <4>2, <4>3
    <3> QED
      BY <1>2, <3>2, <3>3, <3>4, <3>5, <3>6 DEF PairOps
  <2>14. ASSUME NEW l \in Kits
         PROVE  KitSound(l)'
    <3>1. KitSound(l) /\ (l \notin crossed' => l \notin crossed)
      BY <2>8 DEF InventoryInv
    <3>2. CASE Members(l)' \subseteq Members(l)
      BY <1>B, <2>2, <3>1, <3>2 DEF KitSound
    <3>3. CASE ~(Members(l)' \subseteq Members(l))
      <4>1. l = k /\ r.op = "addKitAsset"
        BY <2>6, <2>60, <2>7, <3>3 DEF Members, IsMember
      <4>2. CASE r.missed
        BY <2>8, <4>1, <4>2 DEF KitSound
      <4>3. CASE ~r.missed
        <5>1. ~kit[k].deleted /\ kit[k].status # "RETIRED"
          BY <2>1, <2>8, <4>1, <4>3 DEF Current, KitAcceptsMembers
        <5> QED
          BY <1>B, <2>2, <3>1, <4>1, <5>1 DEF KitSound
      <4> QED
        BY <4>2, <4>3
    <3> QED
      BY <3>2, <3>3
  <2> QED
    BY <1>B, <2>9, <2>10, <2>11, <2>12, <2>13, <2>14 DEF InventoryInv
<1> QED
  BY <1>3, <1>4

-----------------------------------------------------------------------------
(* Equipment *)

LEMMA AssetsArrive ==
    ASSUME InventoryInv, NEW a \in Assets, NEW s \in ManualAssetStatuses, CreateAsset(a, s)
    PROVE  InventoryInv'
<1>1. PICK old \in AssetRows : old = asset[a] /\ old.status = "ABSENT"
  BY DEF InventoryInv, InventoryShape, CreateAsset
<1>2. s \in AssetStatuses \ {"ABSENT", "CHECKED_OUT"}
  BY DEF ManualAssetStatuses
<1>3. /\ [old EXCEPT !.status = s, !.logged = s] \in AssetRows
      /\ asset' = [asset EXCEPT ![a] = [old EXCEPT !.status = s, !.logged = s]]
      /\ UNCHANGED <<kit, maintenance, member, bookingVars, call, crossed>>
  BY <1>1, <1>2 DEF CreateAsset, AssetRows
<1>B. /\ BookingShape' /\ (\A b \in Bookings : BookingSound(b)')
      /\ UNCHANGED <<hold, kitOf, lines, left, strayed>>
  BY <1>3, BookingsStaySound
<1>4. /\ asset' \in [Assets -> AssetRows] /\ asset'[a].status = s /\ asset'[a].logged = s
      /\ \A b \in Assets \ {a} : asset'[b] = asset[b]
  BY <1>1, <1>3 DEF InventoryInv, InventoryShape, AssetRows
<1>5. InventoryShape'
  BY <1>3, <1>B, <1>4 DEF InventoryInv, InventoryShape
<1>6. OneKit' /\ Present'
  BY <1>1, <1>2, <1>3, <1>4 DEF InventoryInv, OneKit, Present, IsMember
<1>7. ~InKit(a)
  BY <1>1 DEF InventoryInv, Present, InKit, IsMember
<1>8. ASSUME NEW b \in Assets
      PROVE  AssetSound(b)'
  <2>1. (InKit(b)' <=> InKit(b)) /\ \A l \in Kits : IsMember(l, b)' <=> IsMember(l, b)
    BY <1>3 DEF InKit, IsMember
  <2>2. AssetSound(b)
    BY DEF InventoryInv
  <2>3. b \notin crossed => /\ InKit(b)' => ~asset'[b].deleted /\ asset'[b].status # "RETIRED"
                            /\ asset'[b].logged = asset'[b].status
                            /\ asset'[b].status = "CHECKED_OUT" <=> asset[b].status = "CHECKED_OUT"
                            /\ asset'[b].status = "CHECKED_OUT" => asset'[b].deleted = asset[b].deleted
    BY <1>1, <1>2, <1>4, <1>7, <2>1, <2>2 DEF AssetSound
  <2> QED
    BY <1>3, <1>B, <2>1, <2>3, AssetStaysSound
<1>9. ASSUME NEW k \in Kits
      PROVE  KitSound(k)'
  <2>1. Members(k)' = Members(k) /\ KitSound(k)
    BY <1>3 DEF Members, IsMember, InventoryInv
  <2> QED
    BY <1>3, <1>B, <2>1 DEF KitSound
<1>10. \A c \in Clerks : EditSound(call[c])'
  <2>1. RowsStay /\ (\A k \in Kits \ {a} : SameKit(k)) /\ (\A b \in Assets \ {a} : SameAsset(b))
    BY <1>1, <1>2, <1>3, <1>B, <1>4, SameBookings DEF RowsStay, SameKit, SameAsset
  <2>2. ASSUME NEW c \in Clerks
        PROVE  EditSound(call[c])'
    <3>1. PICK r \in Records : r = call[c] /\ EditSound(r)
      BY DEF InventoryInv, InventoryShape
    <3>2. r.missed \/ Current(r)
      BY <3>1 DEF EditSound
    <3>3. r.asset # a \/ r.op = "none"
      <4>1. CASE r.op \in KitOps
        BY <3>1, <4>1 DEF EditSound, Formed
      <4>2. CASE r.op \in AssetOps \cup {"addKitAsset"}
        BY <1>1, <3>1, <4>2 DEF EditSound, Formed
      <4>3. CASE r.op \in {"updateKitAsset", "removeKitAsset"}
        <5>1. r.kit \in Kits /\ r.asset \in Assets /\ member[r.kit, r.asset] # "never"
          BY <3>1, <4>3 DEF EditSound, Formed, PairOps
        <5>2. asset[r.asset].status # "ABSENT"
          BY <5>1 DEF InventoryInv, Present
        <5> QED
          BY <1>1, <5>2
      <4> QED
        BY <4>1, <4>2, <4>3 DEF Records, PairOps
    <3>4. r.asset \in Assets /\ r.asset # a => SameAsset(r.asset)
      BY <2>1
    <3>5. r.kit \in Kits => SameKit(r.kit)
      BY <2>1
    <3>6. CASE r.asset # a
      BY <2>1, <3>1, <3>4, <3>5, <3>6, EditStays, <1>3 DEF EditSound
    <3>7. CASE r.op = "none"
      <4>1. EditSound(r)'
        BY <3>7 DEF EditSound, Formed, Current, KitOps, AssetOps, PairOps
      <4> QED
        BY <1>3, <3>1, <4>1
    <3> QED
      BY <3>3, <3>6, <3>7
  <2> QED
    BY <2>2
<1> QED
  BY <1>B, <1>5, <1>6, <1>8, <1>9, <1>10 DEF InventoryInv

LEMMA MaintenanceMoves ==
    ASSUME InventoryInv, NEW a \in Assets, OpenMaintenance(a) \/ CloseMaintenance(a)
    PROVE  InventoryInv'
<1>1. /\ UNCHANGED <<kit, member, bookingVars, crossed>> /\ call' = Touch({a})
      /\ maintenance' \subseteq Assets /\ \A b \in Assets \ {a} : b \in maintenance' <=> b \in maintenance
  BY DEF OpenMaintenance, CloseMaintenance, InventoryInv, InventoryShape
<1>B. /\ BookingShape' /\ (\A b \in Bookings : BookingSound(b)')
      /\ UNCHANGED <<hold, kitOf, lines, left, strayed>>
  BY <1>1, BookingsStaySound
<1>2. asset \in [Assets -> AssetRows]
  BY DEF InventoryInv, InventoryShape
<1>3. /\ asset' \in [Assets -> AssetRows] /\ \A b \in Assets \ {a} : asset'[b] = asset[b]
      /\ asset'[a].deleted = asset[a].deleted
      /\ asset'[a].status = asset[a].status => asset'[a].logged = asset[a].logged
      /\ asset'[a].status # asset[a].status => /\ asset'[a].logged = asset'[a].status
                                              /\ asset[a].status = "AVAILABLE"
                                              /\ asset'[a].status = "MAINTENANCE"
  <2>1. CASE CloseMaintenance(a)
    BY <1>2, <2>1 DEF CloseMaintenance
  <2>2. CASE OpenMaintenance(a)
    <3>1. PICK s \in {asset[a].status} \cup
                (IF asset[a].status = "AVAILABLE" THEN {"MAINTENANCE"} \cap AssetStatuses ELSE {}) :
             asset' = [asset EXCEPT ![a].status = s,
                                    ![a].logged = IF s = asset[a].status
                                                  THEN asset[a].logged ELSE s]
      BY <2>2 DEF OpenMaintenance
    <3>2. PICK old \in AssetRows : old = asset[a]
      BY <1>2
    <3> DEFINE log == IF s = old.status THEN old.logged ELSE s
               row == [old EXCEPT !.status = s, !.logged = log]
    <3>3. s \in AssetStatuses \cup {"ABSENT"} /\ log \in AssetStatuses \cup {"ABSENT"}
      BY <3>1, <3>2 DEF AssetRows
    <3>4. asset' = [asset EXCEPT ![a] = row]
      BY <1>2, <3>1, <3>2
    <3>5. log = old.logged \/ log = s
      OBVIOUS
    <3>6. s = old.status => log = old.logged
      OBVIOUS
    <3>7. s # old.status => log = s /\ old.status = "AVAILABLE" /\ s = "MAINTENANCE"
      BY <3>1, <3>2
    <3> HIDE DEF log
    <3>8. row \in AssetRows /\ row.deleted = old.deleted /\ row.status = s /\ row.logged = log
      BY <3>2, <3>3 DEF AssetRows
    <3> HIDE DEF row
    <3>9. /\ asset' \in [Assets -> AssetRows] /\ \A b \in Assets \ {a} : asset'[b] = asset[b]
          /\ asset'[a] = row
      BY <1>2, <3>4, <3>8
    <3> QED
      BY <3>2, <3>6, <3>7, <3>8, <3>9
  <2> QED
    BY <2>1, <2>2
<1>4. call' \in [Clerks -> Records] /\ \A c \in Clerks : EditSound(call[c])'
  <2>1. RowsStay
    BY <1>1, <1>3 DEF RowsStay
  <2>2. (\A k \in Kits \ {a} : SameKit(k)) /\ (\A b \in Assets \ {a} : SameAsset(b))
    BY <1>1, <1>B, <1>3, SameBookings DEF SameKit, SameAsset
  <2> QED
    BY <1>1, <2>1, <2>2, EditsStay
<1>5. InventoryShape'
  BY <1>1, <1>B, <1>3, <1>4 DEF InventoryInv, InventoryShape
<1>6. OneKit' /\ Present'
  BY <1>1, <1>3 DEF InventoryInv, OneKit, Present, IsMember
<1>7. ASSUME NEW b \in Assets
      PROVE  AssetSound(b)'
  <2>1. (InKit(b)' <=> InKit(b)) /\ \A l \in Kits : IsMember(l, b)' <=> IsMember(l, b)
    BY <1>1 DEF InKit, IsMember
  <2>2. AssetSound(b)
    BY DEF InventoryInv
  <2>3. b \notin crossed => /\ InKit(b)' => ~asset'[b].deleted /\ asset'[b].status # "RETIRED"
                            /\ asset'[b].logged = asset'[b].status
                            /\ asset'[b].status = "CHECKED_OUT" <=> asset[b].status = "CHECKED_OUT"
                            /\ asset'[b].deleted = asset[b].deleted
    BY <1>3, <2>1, <2>2 DEF AssetSound
  <2> QED
    BY <1>1, <1>B, <2>1, <2>3, AssetStaysSound
<1>8. ASSUME NEW k \in Kits
      PROVE  KitSound(k)'
  <2>1. Members(k)' = Members(k) /\ KitSound(k)
    BY <1>1 DEF Members, IsMember, InventoryInv
  <2> QED
    BY <1>1, <1>B, <2>1 DEF KitSound
<1> QED
  BY <1>B, <1>4, <1>5, <1>6, <1>7, <1>8 DEF InventoryInv

-----------------------------------------------------------------------------
(* Bookings *)

\* A booking that changes means nothing to a kit it neither had nor has.
LEMMA OtherKits ==
    ASSUME NEW b \in Bookings, \A d \in Bookings \ {b} : hold'[d] = hold[d] /\ kitOf'[d] = kitOf[d],
           NEW l \in Kits, l # kitOf[b], l # kitOf'[b]
    PROVE  (HasLiveBooking(l)' <=> HasLiveBooking(l)) /\ (ContentsLocked(l)' <=> ContentsLocked(l))
<1>1. \A d \in Bookings : /\ hold'[d] # "none" /\ kitOf'[d] = l <=> hold[d] # "none" /\ kitOf[d] = l
                          /\ hold'[d] \in {"READY", "OUT"} /\ kitOf'[d] = l
                                <=> hold[d] \in {"READY", "OUT"} /\ kitOf[d] = l
  <2>1. ASSUME NEW d \in Bookings
        PROVE  /\ hold'[d] # "none" /\ kitOf'[d] = l <=> hold[d] # "none" /\ kitOf[d] = l
               /\ hold'[d] \in {"READY", "OUT"} /\ kitOf'[d] = l
                                <=> hold[d] \in {"READY", "OUT"} /\ kitOf[d] = l
    <3>1. CASE d = b
      BY <3>1
    <3>2. CASE d # b
      BY <3>2
    <3> QED
      BY <3>1, <3>2
  <2> QED
    BY <2>1
<1> QED
  BY <1>1 DEF HasLiveBooking, ContentsLocked

\* The edits under way when a booking changes, with these kits and assets.
LEMMA EditsSeeBookings ==
    ASSUME InventoryInv, NEW b \in Bookings, NEW things,
           UNCHANGED <<maintenance, member, crossed>>,
           \A d \in Bookings \ {b} : hold'[d] = hold[d] /\ kitOf'[d] = kitOf[d],
           \A l \in Kits \ things : kit'[l] = kit[l] /\ l # kitOf[b] /\ l # kitOf'[b],
           \A a \in Assets \ things : asset'[a] = asset[a],
           \A a \in Assets : asset'[a] = asset[a] \/ asset'[a].status # "ABSENT",
           call' = Touch(things)
    PROVE  /\ call' \in [Clerks -> Records] /\ \A c \in Clerks : EditSound(call[c])'
           /\ OneKit' /\ Present'
<1>1. RowsStay
  BY DEF RowsStay
<1>2. /\ \A l \in Kits \ things : SameKit(l)
      /\ \A a \in Assets \ things : SameAsset(a)
  BY OtherKits DEF SameKit, SameAsset
<1>3. call' \in [Clerks -> Records] /\ \A c \in Clerks : EditSound(call[c])'
  BY <1>1, <1>2, EditsStay
<1>4. OneKit' /\ Present'
  BY <1>1 DEF InventoryInv, OneKit, Present, IsMember, RowsStay
<1> QED
  BY <1>3, <1>4

\* A kit's row gets a status.
LEMMA KitRowMoves ==
    ASSUME InventoryInv, NEW k \in Kits, NEW status \in KitStatuses,
           kit' = [kit EXCEPT ![k].status = status]
    PROVE  /\ kit' \in [Kits -> KitRows] /\ \A l \in Kits \ {k} : kit'[l] = kit[l]
           /\ kit'[k].status = status /\ kit'[k].deleted = kit[k].deleted
<1>0. kit \in [Kits -> KitRows]
  BY DEF InventoryInv, InventoryShape
<1>1. PICK old \in KitRows : old = kit[k]
  BY <1>0
<1> DEFINE row == [old EXCEPT !.status = status]
<1>2. kit' = [kit EXCEPT ![k] = row]
  BY <1>0, <1>1
<1>3. row \in KitRows /\ row.status = status /\ row.deleted = old.deleted
  BY <1>1 DEF KitRows
<1> HIDE DEF row
<1> QED
  BY <1>0, <1>1, <1>2, <1>3

\* A booking's row and its documents.
LEMMA BookingRowMoves ==
    ASSUME InventoryInv, NEW b \in Bookings, NEW to \in Holds, NEW k \in Kits \cup {None},
           hold' = [hold EXCEPT ![b] = to], kitOf' = [kitOf EXCEPT ![b] = k]
    PROVE  /\ hold' \in [Bookings -> Holds] /\ kitOf' \in [Bookings -> Kits \cup {None}]
           /\ hold'[b] = to /\ kitOf'[b] = k
           /\ \A d \in Bookings \ {b} : hold'[d] = hold[d] /\ kitOf'[d] = kitOf[d]
BY DEF InventoryInv, InventoryShape, BookingShape

LEMMA DocumentsGo ==
    ASSUME InventoryInv, NEW b \in Bookings, NoDocument(b)
    PROVE  /\ docKit' \in [Bookings -> Kits \cup {None}]
           /\ lines' \in [Bookings -> SUBSET Assets] /\ left' \in [Bookings -> SUBSET Assets]
           /\ lines'[b] = {} /\ left'[b] = {}
           /\ \A d \in Bookings \ {b} : docKit'[d] = docKit[d] /\ lines'[d] = lines[d] /\ left'[d] = left[d]
BY DEF NoDocument, InventoryInv, InventoryShape, BookingShape

\* Bookings that are not out come, go, and move between kits.
LEMMA HoldMoves ==
    ASSUME InventoryInv, NEW b \in Bookings, hold[b] # "OUT",
           NEW to \in Holds \ {"OUT"}, NEW given \in Kits \cup {None}, to # "none" => given \in Kits,
           NEW k \in Kits, NEW status \in KitStatuses, NEW things,
           hold' = [hold EXCEPT ![b] = to], kitOf' = [kitOf EXCEPT ![b] = given],
           kit' = [kit EXCEPT ![k].status = status],
           status \in {"RETIRED", "CHECKED_OUT"} \/ kit[k].status = "CHECKED_OUT" => status = kit[k].status,
           things = {k, kitOf[b], given} \ {None}, call' = Touch(things),
           UNCHANGED <<asset, maintenance, member, crossed, strayed>>,
           NoDocument(b) \/ UNCHANGED <<docKit, lines, left>>
    PROVE  InventoryInv'
<1>1. /\ kit' \in [Kits -> KitRows] /\ \A l \in Kits \ {k} : kit'[l] = kit[l]
      /\ kit'[k].status = status /\ kit'[k].deleted = kit[k].deleted
  BY KitRowMoves
<1>2. /\ hold' \in [Bookings -> Holds] /\ kitOf' \in [Bookings -> Kits \cup {None}]
      /\ hold'[b] = to /\ kitOf'[b] = given
      /\ \A d \in Bookings \ {b} : hold'[d] = hold[d] /\ kitOf'[d] = kitOf[d]
  BY BookingRowMoves
<1>3. /\ docKit' \in [Bookings -> Kits \cup {None}]
      /\ lines' \in [Bookings -> SUBSET Assets] /\ left' \in [Bookings -> SUBSET Assets]
      /\ (lines'[b] = {} /\ left'[b] = {}) \/ (lines'[b] = lines[b] /\ left'[b] = left[b] /\ docKit'[b] = docKit[b])
      /\ \A d \in Bookings \ {b} : docKit'[d] = docKit[d] /\ lines'[d] = lines[d] /\ left'[d] = left[d]
  BY DocumentsGo DEF InventoryInv, InventoryShape, BookingShape
<1>4. /\ call' \in [Clerks -> Records] /\ \A c \in Clerks : EditSound(call[c])'
      /\ OneKit' /\ Present'
  <2>1. \A l \in Kits \ things : kit'[l] = kit[l] /\ l # kitOf[b] /\ l # kitOf'[b]
    BY <1>1, <1>2
  <2> QED
    BY <1>2, <2>1, EditsSeeBookings
<1>5. BookingShape'
  BY <1>2, <1>3 DEF InventoryInv, InventoryShape, BookingShape
<1>6. InventoryShape'
  BY <1>1, <1>4, <1>5 DEF InventoryInv, InventoryShape
<1>7. ASSUME NEW d \in Bookings
      PROVE  BookingSound(d)'
  <2>1. BookingSound(d)
    BY DEF InventoryInv
  <2>2. CASE d # b
    BY <1>2, <1>3, <2>1, <2>2 DEF BookingSound
  <2>3. CASE d = b
    BY <1>2, <1>3, <2>1, <2>3 DEF BookingSound
  <2> QED
    BY <2>2, <2>3
<1>8. \A d \in Bookings :
          hold'[d] = "OUT" <=> /\ hold[d] = "OUT" /\ d # b
                               /\ kitOf'[d] = kitOf[d] /\ lines'[d] = lines[d] /\ left'[d] = left[d]
  BY <1>2, <1>3
<1>9. ASSUME NEW a \in Assets
      PROVE  AssetSound(a)'
  <2>1. (InKit(a)' <=> InKit(a)) /\ \A d \in Bookings : kitOf'[d] = kitOf[d] =>
                                        (IsMember(kitOf[d], a)' <=> IsMember(kitOf[d], a))
    BY DEF InKit, IsMember
  <2>2. AssetSound(a)
    BY DEF InventoryInv
  <2>3. \A d \in Bookings : hold[d] = "OUT" => hold'[d] = "OUT"
    BY <1>2
  <2> QED
    BY <1>8, <2>1, <2>2, <2>3 DEF AssetSound
<1>10. ASSUME NEW l \in Kits
       PROVE  KitSound(l)'
  <2>1. Members(l)' = Members(l) /\ KitSound(l)
    BY DEF Members, IsMember, InventoryInv
  <2>2. /\ kit'[l].deleted = kit[l].deleted
        /\ kit'[l].status = "RETIRED" => kit[l].status = "RETIRED"
        /\ kit[l].status = "CHECKED_OUT" => kit'[l].status = "CHECKED_OUT"
    BY <1>1
  <2> QED
    BY <1>8, <2>1, <2>2 DEF KitSound
<1> QED
  BY <1>4, <1>6, <1>7, <1>9, <1>10 DEF InventoryInv

LEMMA BookingsMove ==
    ASSUME InventoryInv, NEW b \in Bookings,
           \/ \E k \in Kits : Reserve(b, k) \/ ChangeKit(b, k) \/ Revert(b, k)
           \/ MarkReady(b) \/ ReturnToDraft(b) \/ Cancel(b)
    PROVE  InventoryInv'
<1>0. (\A k \in Kits : kit[k].status \in KitStatuses) /\ (hold[b] # "none" => kitOf[b] \in Kits)
      /\ kitOf[b] \in Kits \cup {None}
  BY DEF InventoryInv, InventoryShape, KitRows, BookingSound, BookingShape
<1>1. ASSUME NEW k \in Kits, NEW to \in {"RESERVED", "READY"}, NEW status \in KitStatuses,
             Takes(b, to, k, status), hold[b] # "OUT",
             status \in {"RETIRED", "CHECKED_OUT"} \/ kit[k].status = "CHECKED_OUT" => status = kit[k].status
      PROVE  InventoryInv'
  <2>1. PICK things : things = {k, kitOf[b]} \ {None}
    OBVIOUS
  <2>2. things = {k, kitOf[b], k} \ {None} /\ call' = Touch(things)
    BY <1>1, <2>1 DEF Takes
  <2>3. to \in Holds \ {"OUT"}
    BY DEF Holds
  <2>4. /\ hold' = [hold EXCEPT ![b] = to] /\ kitOf' = [kitOf EXCEPT ![b] = k]
        /\ kit' = [kit EXCEPT ![k].status = status]
        /\ UNCHANGED <<asset, maintenance, member, docKit, lines, left, crossed, strayed>>
    BY <1>1 DEF Takes
  <2> QED
    BY <1>1, <2>2, <2>3, <2>4, HoldMoves
<1>2. ASSUME NEW status \in KitStatuses, LetsGo(b, status), hold[b] \in {"RESERVED", "READY"},
             status \in {"RETIRED", "CHECKED_OUT"} \/ kit[kitOf[b]].status = "CHECKED_OUT"
                 => status = kit[kitOf[b]].status,
             call' = Touch({kitOf[b]}), UNCHANGED asset,
             NoDocument(b) \/ UNCHANGED <<docKit, lines, left>>
      PROVE  InventoryInv'
  <2>1. PICK k \in Kits : k = kitOf[b]
    BY <1>0, <1>2
  <2>2. PICK things : things = {k}
    OBVIOUS
  <2>3. things = {k, kitOf[b], None} \ {None} /\ call' = Touch(things)
    BY <1>2, <2>1, <2>2
  <2>4. "none" \in Holds \ {"OUT"} /\ hold[b] # "OUT"
    BY <1>2 DEF Holds
  <2>5. /\ hold' = [hold EXCEPT ![b] = "none"] /\ kitOf' = [kitOf EXCEPT ![b] = None]
        /\ kit' = [kit EXCEPT ![k].status = status]
        /\ UNCHANGED <<maintenance, member, crossed, strayed>>
    BY <1>2, <2>1 DEF LetsGo
  <2> QED
    BY <1>2, <2>1, <2>3, <2>4, <2>5, HoldMoves
<1>3. \A k \in Kits : /\ SetAsideStatus(k) \in KitStatuses /\ PutBackStatus(k) \in KitStatuses
                      /\ SetAsideStatus(k) \in {kit[k].status, "RESERVED"}
                      /\ PutBackStatus(k) \in {kit[k].status, "AVAILABLE"}
                      /\ kit[k].status = "CHECKED_OUT" => /\ SetAsideStatus(k) = "CHECKED_OUT"
                                                          /\ PutBackStatus(k) = "CHECKED_OUT"
  BY <1>0 DEF SetAsideStatus, PutBackStatus
<1>4. ASSUME NEW k \in Kits, Reserve(b, k) \/ ChangeKit(b, k)
      PROVE  InventoryInv'
  BY <1>0, <1>1, <1>4 DEF Reserve, ChangeKit
<1>5. ASSUME NEW k \in Kits, Revert(b, k)
      PROVE  InventoryInv'
  <2>1. PICK status \in KitStatuses : status = PutBackStatus(k)
    BY <1>3
  <2> QED
    BY <1>1, <1>3, <1>5, <2>1 DEF Revert
<1>6. CASE MarkReady(b)
  <2>1. PICK k \in Kits : k = kitOf[b]
    BY <1>0, <1>6 DEF MarkReady
  <2>2. PICK status \in KitStatuses : status = SetAsideStatus(k)
    BY <1>3
  <2>3. Takes(b, "READY", k, status) /\ hold[b] # "OUT"
    BY <1>6, <2>1, <2>2 DEF MarkReady
  <2> QED
    BY <1>1, <1>3, <2>2, <2>3
<1>7. CASE ReturnToDraft(b)
  <2>1. PICK k \in Kits : k = kitOf[b]
    BY <1>0, <1>7 DEF ReturnToDraft
  <2>2. PICK status \in KitStatuses : status = kit[k].status
    BY <1>0
  <2> QED
    BY <1>2, <1>7, <2>1, <2>2 DEF ReturnToDraft
<1>8. CASE Cancel(b)
  <2>1. PICK k \in Kits : k = kitOf[b]
    BY <1>0, <1>8 DEF Cancel
  <2>2. PICK status \in KitStatuses :
            status = IF hold[b] = "READY" THEN PutBackStatus(k) ELSE kit[k].status
    BY <1>0, <1>3
  <2>3. status \in {"RETIRED", "CHECKED_OUT"} \/ kit[k].status = "CHECKED_OUT" => status = kit[k].status
    BY <1>3, <2>2
  <2>4. /\ LetsGo(b, status) /\ hold[b] \in {"RESERVED", "READY"} /\ call' = Touch({kitOf[b]})
        /\ NoDocument(b) /\ UNCHANGED asset
    BY <1>8, <2>1, <2>2 DEF Cancel
  <2> QED
    BY <1>2, <2>1, <2>3, <2>4
<1> QED
  BY <1>4, <1>5, <1>6, <1>7, <1>8

LEMMA HandoverStarts ==
    ASSUME InventoryInv, NEW b \in Bookings, StartHandover(b)
    PROVE  InventoryInv'
<1>1. /\ hold[b] = "READY" /\ kitOf[b] \in Kits /\ Members(kitOf[b]) # {}
      /\ UNCHANGED <<kit, asset, maintenance, member, hold, kitOf, left, call, crossed, strayed>>
  BY DEF StartHandover, HandoverUnblocked, InventoryInv, BookingSound
<1>2. Members(kitOf[b]) \subseteq Assets
  BY DEF Members
<1>3. /\ docKit' \in [Bookings -> Kits \cup {None}] /\ lines' \in [Bookings -> SUBSET Assets]
      /\ docKit'[b] = kitOf[b] /\ lines'[b] = Members(kitOf[b])
      /\ \A d \in Bookings \ {b} : docKit'[d] = docKit[d] /\ lines'[d] = lines[d]
  BY <1>1, <1>2 DEF StartHandover, InventoryInv, InventoryShape, BookingShape
<1>4. ASSUME NEW d \in Bookings
      PROVE  BookingSound(d)'
  <2>1. BookingSound(d)
    BY DEF InventoryInv
  <2>2. CASE d # b
    BY <1>1, <1>3, <2>1, <2>2 DEF BookingSound
  <2>3. CASE d = b
    BY <1>1, <1>3, <2>1, <2>3 DEF BookingSound
  <2> QED
    BY <2>2, <2>3
<1>5. InventoryShape' /\ OneKit' /\ Present'
  BY <1>1, <1>3 DEF InventoryInv, InventoryShape, BookingShape, OneKit, Present, IsMember
<1>6. ASSUME NEW a \in Assets
      PROVE  AssetSound(a)'
  <2>1. (InKit(a)' <=> InKit(a)) /\ \A k : IsMember(k, a)' <=> IsMember(k, a)
    BY <1>1 DEF InKit, IsMember
  <2>2. AssetSound(a)
    BY DEF InventoryInv
  <2>3. \A d \in Bookings : IsMember(kitOf[d], a)' <=> IsMember(kitOf[d], a)
    BY <1>1 DEF IsMember
  <2>4. \A d \in Bookings : hold[d] = "OUT" => lines'[d] = lines[d]
    BY <1>1, <1>3
  <2> QED
    BY <1>1, <2>1, <2>2, <2>3, <2>4 DEF AssetSound
<1>7. ASSUME NEW k \in Kits
      PROVE  KitSound(k)'
  <2>1. Members(k)' = Members(k) /\ KitSound(k)
    BY <1>1 DEF Members, IsMember, InventoryInv
  <2> QED
    BY <1>1, <2>1 DEF KitSound
<1>8. ASSUME NEW c \in Clerks
      PROVE  EditSound(call[c])'
  <2>1. PICK r \in Records : r = call[c] /\ EditSound(r)
    BY DEF InventoryInv, InventoryShape
  <2>2. RowsStay /\ (\A k \in Kits : SameKit(k)) /\ (\A a \in Assets : SameAsset(a))
    BY <1>1, SameBookings DEF RowsStay, SameKit, SameAsset
  <2>3. EditSound(r)'
    BY <2>1, <2>2, EditStays DEF EditSound
  <2> QED
    BY <1>1, <2>1, <2>3
<1> QED
  BY <1>4, <1>5, <1>6, <1>7, <1>8 DEF InventoryInv

\* What completing a document writes of the equipment.
LEMMA WrittenRows ==
    ASSUME asset \in [Assets -> AssetRows], NEW b \in Bookings, NEW recorded \in Recorded(b),
           NEW included \in {"CHECKED_OUT", "AVAILABLE"}
    PROVE  /\ Written(recorded, included) \in [Assets -> AssetRows]
           /\ \A a \in Assets :
                 /\ Written(recorded, included)[a].status = Implied(a, recorded, included)
                 /\ Written(recorded, included)[a].deleted = asset[a].deleted
                 /\ Written(recorded, included)[a] = asset[a]
                       \/ Written(recorded, included)[a].logged = Written(recorded, included)[a].status
<1>1. ASSUME NEW a \in Assets
      PROVE  /\ Written(recorded, included)[a] \in AssetRows
             /\ Written(recorded, included)[a].status = Implied(a, recorded, included)
             /\ Written(recorded, included)[a].deleted = asset[a].deleted
             /\ Written(recorded, included)[a] = asset[a]
                    \/ Written(recorded, included)[a].logged = Written(recorded, included)[a].status
  <2>1. PICK old \in AssetRows : old = asset[a]
    OBVIOUS
  <2>2. Implied(a, recorded, included) \in AssetStatuses \cup {"ABSENT"}
    <3>1. old.status \in AssetStatuses \cup {"ABSENT"}
      BY <2>1 DEF AssetRows
    <3>2. a \in DOMAIN recorded => recorded[a] \in {"INCLUDED", "NOT_APPLICABLE"} \cup ({"MISSING", "DAMAGED"} \cap AssetStatuses)
      BY DEF Recorded
    <3>3. included \in AssetStatuses
      OBVIOUS
    <3> QED
      BY <2>1, <3>1, <3>2, <3>3 DEF Implied
  <2>3. PICK now \in AssetStatuses \cup {"ABSENT"} : now = Implied(a, recorded, included)
    BY <2>2
  <2> DEFINE row == [old EXCEPT !.status = now, !.logged = now]
  <2>4. row \in AssetRows /\ row.status = now /\ row.logged = now /\ row.deleted = old.deleted
    BY <2>1, <2>3 DEF AssetRows
  <2>5. Written(recorded, included)[a] = IF now = old.status THEN old ELSE row
    BY <2>1, <2>3 DEF Written
  <2> HIDE DEF row
  <2> QED
    BY <2>1, <2>3, <2>4, <2>5
<1>2. Written(recorded, included) = [a \in Assets |-> Written(recorded, included)[a]]
  BY DEF Written
<1>3. Written(recorded, included) \in [Assets -> AssetRows]
  BY <1>1, <1>2
<1> QED
  BY <1>1, <1>3

LEMMA KitsLeave ==
    ASSUME InventoryInv, NEW b \in Bookings, HandOver(b)
    PROVE  InventoryInv'
<1>1. PICK k \in Kits : k = kitOf[b]
  BY DEF HandOver, HandoverUnblocked, InventoryInv, BookingSound
<1>2. /\ hold[b] = "READY" /\ kit[k].status = "RESERVED" /\ Members(k) # {} /\ ~kit[k].deleted
      /\ lines[b] # {} /\ lines[b] \subseteq Assets
      /\ UNCHANGED <<maintenance, member, kitOf, docKit, lines, crossed>>
  BY <1>1 DEF HandOver, HandoverUnblocked, Readiness, InventoryInv, InventoryShape, BookingShape
<1>3. PICK recorded \in Recorded(b) :
          /\ asset' = Written(recorded, "CHECKED_OUT")
          /\ left' = [left EXCEPT ![b] = {a \in lines[b] : recorded[a] = "INCLUDED"}]
  BY DEF HandOver
<1>4. /\ kit' \in [Kits -> KitRows] /\ \A l \in Kits \ {k} : kit'[l] = kit[l]
      /\ kit'[k].status = "CHECKED_OUT" /\ kit'[k].deleted = kit[k].deleted
  <2>1. kit' = [kit EXCEPT ![k].status = "CHECKED_OUT"]
    BY <1>1 DEF HandOver
  <2>2. PICK status \in KitStatuses : status = "CHECKED_OUT"
    OBVIOUS
  <2> QED
    BY <2>1, <2>2, KitRowMoves
<1>5. /\ asset' \in [Assets -> AssetRows]
      /\ \A a \in Assets : /\ asset'[a].status = Implied(a, recorded, "CHECKED_OUT")
                           /\ asset'[a].deleted = asset[a].deleted
                           /\ asset'[a] = asset[a] \/ asset'[a].logged = asset'[a].status
  <2>1. asset \in [Assets -> AssetRows]
    BY DEF InventoryInv, InventoryShape
  <2>2. PICK included \in {"CHECKED_OUT", "AVAILABLE"} : included = "CHECKED_OUT"
    OBVIOUS
  <2> QED
    BY <1>3, <2>1, <2>2, WrittenRows
<1>6. \A a \in Assets :
          /\ a \notin lines[b] => asset'[a] = asset[a]
          /\ a \in lines[b] /\ recorded[a] = "INCLUDED" /\ ~asset[a].deleted => asset'[a].status = "CHECKED_OUT"
          /\ asset'[a] = asset[a] \/ asset'[a].status # "CHECKED_OUT"
                \/ (a \in lines[b] /\ recorded[a] = "INCLUDED" /\ ~asset[a].deleted)
          /\ asset'[a] = asset[a] \/ asset'[a].status \in {"CHECKED_OUT", "MISSING", "DAMAGED"}
  <2>1. ASSUME NEW a \in Assets
        PROVE  /\ a \notin lines[b] => asset'[a] = asset[a]
               /\ a \in lines[b] /\ recorded[a] = "INCLUDED" /\ ~asset[a].deleted => asset'[a].status = "CHECKED_OUT"
               /\ asset'[a] = asset[a] \/ asset'[a].status # "CHECKED_OUT"
                     \/ (a \in lines[b] /\ recorded[a] = "INCLUDED" /\ ~asset[a].deleted)
               /\ asset'[a] = asset[a] \/ asset'[a].status \in {"CHECKED_OUT", "MISSING", "DAMAGED"}
    <3>1. asset'[a] = asset[a] \/ Implied(a, recorded, "CHECKED_OUT") # asset[a].status
      BY <1>3 DEF Written
    <3>2. DOMAIN recorded = lines[b] /\ (a \in lines[b] => recorded[a] \in {"INCLUDED", "NOT_APPLICABLE", "MISSING", "DAMAGED"})
      BY DEF Recorded
    <3>3. CASE a \notin lines[b]
      BY <3>1, <3>2, <3>3 DEF Implied
    <3>4. CASE a \in lines[b] /\ (recorded[a] = "NOT_APPLICABLE" \/ asset[a].deleted)
      BY <3>1, <3>2, <3>4 DEF Implied
    <3>5. CASE a \in lines[b] /\ recorded[a] = "INCLUDED" /\ ~asset[a].deleted
      BY <1>5, <3>2, <3>5 DEF Implied
    <3>6. CASE a \in lines[b] /\ recorded[a] \in {"MISSING", "DAMAGED"} /\ ~asset[a].deleted
      BY <1>5, <3>2, <3>6 DEF Implied
    <3> QED
      BY <3>2, <3>3, <3>4, <3>5, <3>6
  <2> QED
    BY <2>1
<1>7. /\ hold' \in [Bookings -> Holds] /\ hold'[b] = "OUT" /\ \A d \in Bookings \ {b} : hold'[d] = hold[d]
  BY DEF HandOver, Holds, InventoryInv, InventoryShape, BookingShape
<1>8. /\ left' \in [Bookings -> SUBSET Assets] /\ left'[b] = {a \in lines[b] : recorded[a] = "INCLUDED"}
      /\ \A d \in Bookings \ {b} : left'[d] = left[d]
  BY <1>2, <1>3 DEF InventoryInv, InventoryShape, BookingShape
<1>9. strayed' \subseteq Assets /\ strayed \subseteq strayed' /\ lines[b] \ strayed' \subseteq Members(k)
  BY <1>1, <1>2 DEF HandOver, InventoryInv, InventoryShape, BookingShape
<1>10. /\ call' \in [Clerks -> Records] /\ \A c \in Clerks : EditSound(call[c])'
       /\ OneKit' /\ Present'
  <2>1. PICK things : things = {k} \cup Rewritten
    OBVIOUS
  <2>2. call' = Touch(things)
    BY <1>1, <2>1 DEF HandOver
  <2>3. /\ \A l \in Kits \ things : kit'[l] = kit[l] /\ l # kitOf[b] /\ l # kitOf'[b]
        /\ \A a \in Assets \ things : asset'[a] = asset[a]
        /\ \A a \in Assets : asset'[a] = asset[a] \/ asset'[a].status # "ABSENT"
    BY <1>1, <1>2, <1>4, <1>6, <2>1 DEF Rewritten
  <2> QED
    BY <1>2, <1>7, <2>2, <2>3, EditsSeeBookings
<1>11. InventoryShape'
  <2>1. BookingShape'
    BY <1>2, <1>7, <1>8, <1>9 DEF InventoryInv, InventoryShape, BookingShape
  <2> QED
    BY <1>2, <1>4, <1>5, <1>10, <2>1 DEF InventoryInv, InventoryShape
<1>12. ASSUME NEW d \in Bookings
       PROVE  BookingSound(d)'
  <2>1. BookingSound(d)
    BY DEF InventoryInv
  <2>2. CASE d # b
    BY <1>2, <1>7, <1>8, <2>1, <2>2 DEF BookingSound
  <2>3. CASE d = b
    BY <1>1, <1>2, <1>7, <1>8, <2>1, <2>3 DEF BookingSound
  <2> QED
    BY <2>2, <2>3
<1>13. ASSUME k \notin crossed, NEW d \in Bookings, hold[d] = "OUT"
       PROVE  kitOf[d] # k
  BY <1>2, <1>13 DEF InventoryInv, KitSound
<1>14. ASSUME NEW a \in Assets, a \notin crossed
       PROVE  AssetSound(a)'
  <2>1. (InKit(a)' <=> InKit(a)) /\ \A l \in Kits : IsMember(l, a)' <=> IsMember(l, a)
    BY <1>2 DEF InKit, IsMember
  <2>2. AssetSound(a)
    BY DEF InventoryInv
  <2>3. InKit(a)' => ~asset'[a].deleted /\ asset'[a].status # "RETIRED"
    BY <1>5, <1>6, <1>14, <2>1, <2>2 DEF AssetSound
  <2>4. asset'[a].logged = asset'[a].status
    BY <1>5, <1>14, <2>2 DEF AssetSound
  <2>5. asset'[a].status = "CHECKED_OUT" =>
            ~asset'[a].deleted /\ \E d \in Bookings : hold'[d] = "OUT" /\ a \in left'[d]
    <3>1. CASE a \in lines[b] /\ recorded[a] = "INCLUDED" /\ ~asset[a].deleted
      BY <1>5, <1>7, <1>8, <3>1
    <3>2. CASE asset'[a] = asset[a]
      <4>1. asset[a].status = "CHECKED_OUT" =>
                ~asset[a].deleted /\ \E d \in Bookings : hold[d] = "OUT" /\ a \in left[d] /\ d # b
        BY <1>2, <1>14, <2>2 DEF AssetSound
      <4> QED
        BY <1>7, <1>8, <3>2, <4>1
    <3> QED
      BY <1>6, <3>1, <3>2
  <2>6. ASSUME NEW d \in Bookings, hold'[d] = "OUT", a \in lines'[d] \ strayed'
        PROVE  /\ IsMember(kitOf[d], a)'
               /\ a \in left'[d] /\ kitOf'[d] \notin crossed' => asset'[a].status = "CHECKED_OUT"
    <3>1. CASE d = b
      <4>1. IsMember(k, a) /\ InKit(a)
        BY <1>2, <1>9, <2>6, <3>1 DEF Members, InKit
      <4>2. ~asset[a].deleted
        BY <1>14, <2>2, <4>1 DEF AssetSound
      <4>3. IsMember(kitOf[d], a)'
        BY <1>1, <1>2, <3>1, <4>1 DEF IsMember
      <4> QED
        BY <1>6, <1>8, <3>1, <4>2, <4>3
    <3>2. CASE d # b
      <4>1. hold[d] = "OUT" /\ a \in lines[d] \ strayed /\ kitOf[d] \in Kits
        BY <1>2, <1>7, <1>9, <2>6, <3>2 DEF InventoryInv, BookingSound
      <4>2. IsMember(kitOf[d], a) /\ (a \in left[d] /\ kitOf[d] \notin crossed => asset[a].status = "CHECKED_OUT")
        BY <1>14, <2>2, <4>1 DEF AssetSound
      <4>3. IsMember(kitOf[d], a)'
        BY <1>2, <4>2 DEF IsMember
      <4>4. ASSUME a \in left[d], kitOf[d] \notin crossed, a \in lines[b]
            PROVE  FALSE
        <5>1. IsMember(k, a)
          BY <1>9, <2>6, <4>4 DEF Members
        <5>2. kitOf[d] = k
          BY <4>1, <4>2, <5>1 DEF InventoryInv, OneKit
        <5> QED
          BY <1>13, <4>1, <4>4, <5>2
      <4> QED
        BY <1>2, <1>6, <1>8, <3>2, <4>2, <4>3, <4>4
    <3> QED
      BY <3>1, <3>2
  <2> QED
    BY <2>3, <2>4, <2>5, <2>6 DEF AssetSound
<1>15. ASSUME NEW l \in Kits
       PROVE  KitSound(l)'
  <2>1. Members(l)' = Members(l) /\ KitSound(l)
    BY <1>2 DEF Members, IsMember, InventoryInv
  <2>2. CASE l # k
    BY <1>1, <1>2, <1>4, <1>7, <2>1, <2>2 DEF KitSound
  <2>3. CASE l = k
    <3>1. \A d \in Bookings : k \notin crossed /\ hold'[d] = "OUT" /\ kitOf'[d] = k => d = b
      BY <1>2, <1>7, <1>13
    <3> QED
      BY <1>2, <1>4, <2>1, <2>3, <3>1 DEF KitSound
  <2> QED
    BY <2>2, <2>3
<1>16. \A a \in Assets : AssetSound(a)'
  BY <1>2, <1>14 DEF AssetSound
<1> QED
  BY <1>10, <1>11, <1>12, <1>15, <1>16 DEF InventoryInv

LEMMA KitsReturn ==
    ASSUME InventoryInv, NEW b \in Bookings, Return(b)
    PROVE  InventoryInv'
<1>1. PICK k \in Kits : k = kitOf[b]
  BY DEF Return, InventoryInv, BookingSound
<1>2. /\ hold[b] = "OUT" /\ ~kit[k].deleted /\ lines[b] \subseteq Assets /\ left[b] \subseteq lines[b]
      /\ UNCHANGED <<maintenance, member, crossed, strayed>>
  BY <1>1 DEF Return, LetsGo, InventoryInv, InventoryShape, BookingShape, BookingSound
<1>3. PICK recorded \in Recorded(b) :
          /\ asset' = Written(recorded, "AVAILABLE")
          /\ \A a \in left[b] : recorded[a] # "NOT_APPLICABLE"
  BY DEF Return
<1>4. /\ kit' \in [Kits -> KitRows] /\ \A l \in Kits \ {k} : kit'[l] = kit[l]
      /\ kit'[k].status \in {"AVAILABLE", "MAINTENANCE", "DAMAGED"} /\ kit'[k].deleted = kit[k].deleted
  <2>1. PICK status \in {"AVAILABLE", "MAINTENANCE", "DAMAGED"} : status = StatusAfterReturn(k, asset')
    BY DEF StatusAfterReturn
  <2>2. kit' = [kit EXCEPT ![k].status = status] /\ status \in KitStatuses
    BY <1>1, <2>1 DEF Return, LetsGo
  <2> QED
    BY <2>2, KitRowMoves
<1>5. /\ asset' \in [Assets -> AssetRows]
      /\ \A a \in Assets : /\ asset'[a].status = Implied(a, recorded, "AVAILABLE")
                           /\ asset'[a].deleted = asset[a].deleted
                           /\ asset'[a] = asset[a] \/ asset'[a].logged = asset'[a].status
  <2>1. asset \in [Assets -> AssetRows]
    BY DEF InventoryInv, InventoryShape
  <2>2. PICK included \in {"CHECKED_OUT", "AVAILABLE"} : included = "AVAILABLE"
    OBVIOUS
  <2> QED
    BY <1>3, <2>1, <2>2, WrittenRows
<1>6. \A a \in Assets :
          /\ a \notin lines[b] => asset'[a] = asset[a]
          /\ a \in left[b] /\ ~asset[a].deleted => asset'[a].status # "CHECKED_OUT"
          /\ asset'[a] = asset[a] \/ asset'[a].status \in {"AVAILABLE", "MISSING", "DAMAGED"}
  <2>1. ASSUME NEW a \in Assets
        PROVE  /\ a \notin lines[b] => asset'[a] = asset[a]
               /\ a \in left[b] /\ ~asset[a].deleted => asset'[a].status # "CHECKED_OUT"
               /\ asset'[a] = asset[a] \/ asset'[a].status \in {"AVAILABLE", "MISSING", "DAMAGED"}
    <3>1. asset'[a] = asset[a] \/ Implied(a, recorded, "AVAILABLE") # asset[a].status
      BY <1>3 DEF Written
    <3>2. DOMAIN recorded = lines[b] /\ (a \in lines[b] => recorded[a] \in {"INCLUDED", "NOT_APPLICABLE", "MISSING", "DAMAGED"})
      BY DEF Recorded
    <3>3. CASE a \notin lines[b]
      BY <1>2, <3>1, <3>2, <3>3 DEF Implied
    <3>4. CASE a \in lines[b] /\ (recorded[a] = "NOT_APPLICABLE" \/ asset[a].deleted)
      BY <1>3, <3>1, <3>2, <3>4 DEF Implied
    <3>5. CASE a \in lines[b] /\ recorded[a] # "NOT_APPLICABLE" /\ ~asset[a].deleted
      BY <1>5, <3>2, <3>5 DEF Implied
    <3> QED
      BY <3>3, <3>4, <3>5
  <2> QED
    BY <2>1
<1>7. /\ hold' \in [Bookings -> Holds] /\ kitOf' \in [Bookings -> Kits \cup {None}]
      /\ hold'[b] = "none" /\ kitOf'[b] = None
      /\ \A d \in Bookings \ {b} : hold'[d] = hold[d] /\ kitOf'[d] = kitOf[d]
  <2>1. hold' = [hold EXCEPT ![b] = "none"] /\ kitOf' = [kitOf EXCEPT ![b] = None] /\ "none" \in Holds
    BY DEF Return, LetsGo, Holds
  <2> QED
    BY <2>1, BookingRowMoves
<1>8. /\ docKit' \in [Bookings -> Kits \cup {None}]
      /\ lines' \in [Bookings -> SUBSET Assets] /\ left' \in [Bookings -> SUBSET Assets]
      /\ lines'[b] = {} /\ left'[b] = {}
      /\ \A d \in Bookings \ {b} : docKit'[d] = docKit[d] /\ lines'[d] = lines[d] /\ left'[d] = left[d]
  BY DocumentsGo DEF Return
<1>9. /\ call' \in [Clerks -> Records] /\ \A c \in Clerks : EditSound(call[c])'
      /\ OneKit' /\ Present'
  <2>1. PICK things : things = {k} \cup Rewritten
    OBVIOUS
  <2>2. call' = Touch(things)
    BY <1>1, <2>1 DEF Return
  <2>3. /\ \A l \in Kits \ things : kit'[l] = kit[l] /\ l # kitOf[b] /\ l # kitOf'[b]
        /\ \A a \in Assets \ things : asset'[a] = asset[a]
        /\ \A a \in Assets : asset'[a] = asset[a] \/ asset'[a].status # "ABSENT"
    BY <1>1, <1>4, <1>6, <1>7, <2>1 DEF Rewritten
  <2> QED
    BY <1>2, <1>7, <2>2, <2>3, EditsSeeBookings
<1>10. InventoryShape'
  <2>1. BookingShape'
    BY <1>2, <1>7, <1>8 DEF InventoryInv, InventoryShape, BookingShape
  <2> QED
    BY <1>2, <1>4, <1>5, <1>9, <2>1 DEF InventoryInv, InventoryShape
<1>11. ASSUME NEW d \in Bookings
       PROVE  BookingSound(d)'
  <2>1. BookingSound(d)
    BY DEF InventoryInv
  <2>2. CASE d # b
    BY <1>7, <1>8, <2>1, <2>2 DEF BookingSound
  <2>3. CASE d = b
    BY <1>7, <1>8, <2>3 DEF BookingSound
  <2> QED
    BY <2>2, <2>3
<1>12. ASSUME NEW a \in Assets, a \notin crossed
       PROVE  AssetSound(a)'
  <2>1. (InKit(a)' <=> InKit(a)) /\ \A l \in Kits : IsMember(l, a)' <=> IsMember(l, a)
    BY <1>2 DEF InKit, IsMember
  <2>2. AssetSound(a)
    BY DEF InventoryInv
  <2>3. InKit(a)' => ~asset'[a].deleted /\ asset'[a].status # "RETIRED"
    BY <1>5, <1>6, <1>12, <2>1, <2>2 DEF AssetSound
  <2>4. asset'[a].logged = asset'[a].status
    BY <1>5, <1>12, <2>2 DEF AssetSound
  <2>5. asset'[a].status = "CHECKED_OUT" =>
            ~asset'[a].deleted /\ \E d \in Bookings : hold'[d] = "OUT" /\ a \in left'[d]
    <3> SUFFICES ASSUME asset'[a].status = "CHECKED_OUT"
                 PROVE  ~asset'[a].deleted /\ \E d \in Bookings : hold'[d] = "OUT" /\ a \in left'[d]
      OBVIOUS
    <3>1. asset'[a] = asset[a]
      BY <1>6
    <3>2. ~asset[a].deleted /\ \E d \in Bookings : hold[d] = "OUT" /\ a \in left[d]
      BY <1>12, <2>2, <3>1 DEF AssetSound
    <3>3. a \notin left[b]
      BY <1>6, <3>2
    <3> QED
      BY <1>7, <1>8, <3>1, <3>2, <3>3
  <2>6. ASSUME NEW d \in Bookings, hold'[d] = "OUT", a \in lines'[d] \ strayed'
        PROVE  /\ IsMember(kitOf[d], a)'
               /\ a \in left'[d] /\ kitOf'[d] \notin crossed' => asset'[a].status = "CHECKED_OUT"
    <3>1. d # b /\ hold[d] = "OUT" /\ a \in lines[d] \ strayed /\ kitOf[d] \in Kits
      BY <1>2, <1>7, <1>8, <2>6 DEF InventoryInv, BookingSound
    <3>2. IsMember(kitOf[d], a) /\ (a \in left[d] /\ kitOf[d] \notin crossed => asset[a].status = "CHECKED_OUT")
      BY <1>12, <2>2, <3>1 DEF AssetSound
    <3>3. IsMember(kitOf[d], a)'
      BY <1>2, <1>7, <3>1, <3>2 DEF IsMember
    <3>4. ASSUME a \in left[d], kitOf[d] \notin crossed, a \in lines[b]
          PROVE  FALSE
      <4>1. IsMember(kitOf[b], a)
        BY <1>2, <1>12, <2>2, <3>1, <3>4 DEF AssetSound
      <4>2. kitOf[d] = k
        BY <1>1, <3>1, <3>2, <4>1 DEF InventoryInv, OneKit
      <4> QED
        BY <1>1, <1>2, <3>1, <3>4, <4>2 DEF InventoryInv, KitSound
    <3> QED
      BY <1>2, <1>6, <1>7, <1>8, <3>1, <3>2, <3>3, <3>4
  <2> QED
    BY <2>3, <2>4, <2>5, <2>6 DEF AssetSound
<1>13. ASSUME NEW l \in Kits
       PROVE  KitSound(l)'
  <2>1. Members(l)' = Members(l) /\ KitSound(l)
    BY <1>2 DEF Members, IsMember, InventoryInv
  <2>2. \A d \in Bookings : hold'[d] = "OUT" => hold[d] = "OUT" /\ kitOf'[d] = kitOf[d] /\ d # b
    BY <1>7
  <2>3. CASE l # k
    BY <1>2, <1>4, <2>1, <2>2, <2>3 DEF KitSound
  <2>4. CASE l = k
    <3>1. k \notin crossed => \A d \in Bookings : hold'[d] = "OUT" => kitOf'[d] # k
      BY <1>1, <1>2, <2>1, <2>2, <2>4 DEF KitSound
    <3> QED
      BY <1>2, <1>4, <2>1, <2>4, <3>1 DEF KitSound
  <2> QED
    BY <2>3, <2>4
<1>14. \A a \in Assets : AssetSound(a)'
  BY <1>2, <1>12 DEF AssetSound
<1> QED
  BY <1>9, <1>10, <1>11, <1>13, <1>14 DEF InventoryInv

-----------------------------------------------------------------------------
(* The invariant *)

LEMMA InventoryInvStarts == InventoryInit => InventoryInv
<1> SUFFICES ASSUME InventoryInit
             PROVE  InventoryInv
  OBVIOUS
<1>1. InventoryShape
  <2>1. kit \in [Kits -> KitRows]
    <3>1. [status |-> "AVAILABLE", deleted |-> FALSE] \in KitRows
      BY DEF KitRows
    <3> QED
      BY <3>1 DEF InventoryInit
  <2>2. asset \in [Assets -> AssetRows]
    <3>1. \A s \in {"AVAILABLE", "ABSENT"} : [status |-> s, deleted |-> FALSE, logged |-> s] \in AssetRows
      BY DEF AssetRows
    <3> QED
      BY <3>1 DEF InventoryInit
  <2>3. call \in [Clerks -> Records]
    BY IdleIsARecord DEF InventoryInit
  <2>4. BookingShape
    BY DEF InventoryInit, BookingShape, Holds
  <2> QED
    BY <2>1, <2>2, <2>3, <2>4 DEF InventoryInit, InventoryShape, Memberships
<1>2. OneKit /\ Present
  BY DEF InventoryInit, OneKit, Present, IsMember
<1>3. ASSUME NEW a \in Assets
      PROVE  AssetSound(a)
  <2>1. ~InKit(a) /\ \A b \in Bookings : hold[b] = "none"
    BY DEF InventoryInit, InKit, IsMember
  <2>2. asset[a].logged = asset[a].status /\ asset[a].status # "CHECKED_OUT"
    BY DEF InventoryInit
  <2> QED
    BY <2>1, <2>2 DEF AssetSound
<1>4. ASSUME NEW k \in Kits
      PROVE  KitSound(k)
  BY DEF InventoryInit, KitSound
<1>5. \A c \in Clerks : EditSound(call[c])
  BY IdleIsARecord DEF InventoryInit
<1>6. \A b \in Bookings : BookingSound(b)
  BY DEF InventoryInit, BookingSound
<1> QED
  BY <1>1, <1>2, <1>3, <1>4, <1>5, <1>6 DEF InventoryInv

LEMMA InventoryInvStays == InventoryInv /\ [InventoryNext]_inventoryVars => InventoryInv'
<1> SUFFICES ASSUME InventoryInv, [InventoryNext]_inventoryVars
             PROVE  InventoryInv'
  OBVIOUS
<1>1. ASSUME NEW c \in Clerks, NEW k \in Kits,
             \/ ReadForUpdateKit(c, k) \/ ReadForRemoveKit(c, k)
             \/ \E a \in Assets : \/ ReadForAddKitAsset(c, k, a) \/ ReadForUpdateKitAsset(c, k, a)
                                 \/ ReadForRemoveKitAsset(c, k, a)
      PROVE  InventoryInv'
  BY <1>1, KitReads, PairReads
<1>2. ASSUME NEW c \in Clerks, NEW a \in Assets, ReadForUpdateAsset(c, a) \/ ReadForRemoveAsset(c, a)
      PROVE  InventoryInv'
  BY <1>2, AssetReads
<1>3. ASSUME NEW c \in Clerks, WriteKit(c) \/ WriteMember(c) \/ WriteAsset(c)
      PROVE  InventoryInv'
  BY <1>3, KitWrites, MemberWrites, AssetWrites
<1>4. ASSUME NEW a \in Assets,
             \/ OpenMaintenance(a) \/ CloseMaintenance(a)
             \/ \E s \in ManualAssetStatuses : CreateAsset(a, s)
      PROVE  InventoryInv'
  BY <1>4, MaintenanceMoves, AssetsArrive
<1>5. ASSUME NEW b \in Bookings,
             \/ \E k \in Kits : Reserve(b, k) \/ ChangeKit(b, k) \/ Revert(b, k)
             \/ MarkReady(b) \/ ReturnToDraft(b) \/ Cancel(b)
             \/ StartHandover(b) \/ HandOver(b) \/ Return(b)
      PROVE  InventoryInv'
  BY <1>5, BookingsMove, HandoverStarts, KitsLeave, KitsReturn
<1>6. CASE UNCHANGED inventoryVars
  <2>1. UNCHANGED <<kit, asset, maintenance, member, bookingVars, call, crossed>>
    BY <1>6 DEF inventoryVars
  <2>2. /\ BookingShape' /\ (\A b \in Bookings : BookingSound(b)')
        /\ UNCHANGED <<hold, kitOf, lines, left, strayed>>
    BY <2>1, BookingsStaySound
  <2>3. /\ InventoryShape' /\ OneKit' /\ Present'
        /\ (\A a \in Assets : AssetSound(a)') /\ (\A k \in Kits : KitSound(k)')
    BY <2>1, <2>2, SoundStays DEF InventoryInv, InventoryShape
  <2>4. ASSUME NEW c \in Clerks
        PROVE  EditSound(call[c])'
    <3>1. PICK r \in Records : r = call[c] /\ EditSound(r)
      BY DEF InventoryInv, InventoryShape
    <3>2. RowsStay /\ (\A k \in Kits : SameKit(k)) /\ (\A a \in Assets : SameAsset(a))
      BY <2>1, <2>2, SameBookings DEF RowsStay, SameKit, SameAsset
    <3>3. EditSound(r)'
      BY <3>1, <3>2, EditStays DEF EditSound
    <3> QED
      BY <2>1, <3>1, <3>3
  <2> QED
    BY <2>2, <2>3, <2>4 DEF InventoryInv
<1> QED
  BY <1>1, <1>2, <1>3, <1>4, <1>5, <1>6 DEF InventoryNext, InventoryStep

\* The invariant of the inventory, whatever edits cross and whatever documents
\* outlive: what is in a kit is in the inventory, the status log ends with the
\* status, what is CHECKED_OUT is out with a booking, a kit is out with one at a
\* time, and what a booking took out is still in its kit unless its document
\* listed it though it had left (updateKit, addKitAsset, removeKitAsset,
\* updateAsset, completeHandover, completeReturn and the rest, together).
THEOREM InventoryIsSound == InventorySpec => []InventoryInv
<1>1. InventoryInit => InventoryInv
  BY InventoryInvStarts
<1>2. InventoryInv /\ [InventoryNext]_inventoryVars => InventoryInv'
  BY InventoryInvStays
<1> QED
  BY <1>1, <1>2, PTL DEF InventorySpec

-----------------------------------------------------------------------------
(* What it implies *)

\* However edits race, an asset is an active member of one kit at most, and
\* neither what is in a kit nor the kit is removed or retired, unless edits of
\* one of them crossed (removalBlocker, kitRemovalBlocker,
\* assetAssignmentBlocker and the index on active memberships).
THEOREM MembershipsHold == InventorySpec => []MembershipsAreSound
<1>1. InventoryInv => MembershipsAreSound
  <2> SUFFICES ASSUME InventoryInv
               PROVE  MembershipsAreSound
    OBVIOUS
  <2>1. ASSUME NEW a \in Assets
        PROVE  Cardinality({k \in Kits : IsMember(k, a)}) <= 1
    <3>1. CASE {k \in Kits : IsMember(k, a)} = {}
      BY <3>1, FS_EmptySet
    <3>2. CASE {k \in Kits : IsMember(k, a)} # {}
      <4>1. PICK l \in Kits : IsMember(l, a)
        BY <3>2
      <4>2. {k \in Kits : IsMember(k, a)} = {l}
        BY <4>1 DEF InventoryInv, OneKit
      <4>3. Cardinality({l}) = 1
        BY FS_Singleton
      <4> QED
        BY <4>2, <4>3
    <3> QED
      BY <3>1, <3>2
  <2>2. ASSUME NEW k \in Kits, NEW a \in Assets, IsMember(k, a), {k, a} \cap crossed = {}
        PROVE  /\ ~asset[a].deleted /\ asset[a].status # "RETIRED"
               /\ ~kit[k].deleted /\ kit[k].status # "RETIRED"
    <3>1. a \notin crossed /\ k \notin crossed /\ InKit(a) /\ a \in Members(k)
      BY <2>2 DEF InKit, Members
    <3> QED
      BY <3>1 DEF InventoryInv, AssetSound, KitSound
  <2> QED
    BY <2>1, <2>2 DEF MembershipsAreSound
<1> QED
  BY <1>1, InventoryIsSound, PTL

\* Equipment is checked out only while it is out with a booking, and its status
\* log ends with the status it has, unless edits of it crossed; what is out is
\* checked out, with a kit that is and that still has it, unless edits crossed or
\* its document listed it though it had left the kit (completeHandover,
\* completeReturn, allowedStatusTransitions and memberRemovalBlocker, together).
THEOREM CheckedOutMeansOut == InventorySpec => []CheckedOutWithItsKit
<1>1. InventoryInv => CheckedOutWithItsKit
  <2> SUFFICES ASSUME InventoryInv, NEW a \in Assets \ crossed
               PROVE  /\ asset[a].logged = asset[a].status
                      /\ asset[a].status = "CHECKED_OUT" =>
                            \E b \in Bookings : hold[b] = "OUT" /\ a \in left[b]
                      /\ \A b \in Bookings :
                            hold[b] = "OUT" /\ a \in left[b] \ strayed /\ kitOf[b] \notin crossed =>
                                /\ asset[a].status = "CHECKED_OUT" /\ kit[kitOf[b]].status = "CHECKED_OUT"
                                /\ IsMember(kitOf[b], a)
    BY DEF CheckedOutWithItsKit
  <2>1. AssetSound(a) /\ (\A k \in Kits : KitSound(k)) /\ (\A b \in Bookings : BookingSound(b))
    BY DEF InventoryInv
  <2>2. ASSUME NEW b \in Bookings, hold[b] = "OUT", a \in left[b] \ strayed, kitOf[b] \notin crossed
        PROVE  /\ asset[a].status = "CHECKED_OUT" /\ kit[kitOf[b]].status = "CHECKED_OUT"
               /\ IsMember(kitOf[b], a)
    <3>1. a \in lines[b] \ strayed /\ kitOf[b] \in Kits
      BY <2>1, <2>2 DEF BookingSound
    <3>2. kit[kitOf[b]].status = "CHECKED_OUT"
      BY <2>1, <2>2, <3>1 DEF KitSound
    <3> QED
      BY <2>1, <2>2, <3>1, <3>2 DEF AssetSound
  <2> QED
    BY <2>1, <2>2 DEF AssetSound
<1> QED
  BY <1>1, InventoryIsSound, PTL

\* Only its own return ends a booking's being out.
LEMMA OnlyReturnsEnd ==
    ASSUME InventoryInv, InventoryNext, NEW b \in Bookings, hold[b] = "OUT", hold'[b] # "OUT"
    PROVE  Return(b)
<1>0. hold \in [Bookings -> Holds]
  BY DEF InventoryInv, InventoryShape, BookingShape
<1>1. hold' # hold
  OBVIOUS
<1>2. PICK d \in Bookings :
          \/ \E k \in Kits : Reserve(d, k) \/ ChangeKit(d, k) \/ Revert(d, k)
          \/ MarkReady(d) \/ ReturnToDraft(d) \/ Cancel(d) \/ HandOver(d) \/ Return(d)
  BY <1>1 DEF InventoryNext, InventoryStep, ReadForUpdateKit, ReadForRemoveKit,
     ReadForAddKitAsset, ReadForUpdateKitAsset, ReadForRemoveKitAsset, ReadForUpdateAsset,
     ReadForRemoveAsset, Read, WriteKit, WriteMember, WriteAsset, OpenMaintenance,
     CloseMaintenance, CreateAsset, StartHandover, bookingVars
<1>3. \E to \in Holds : hold' = [hold EXCEPT ![d] = to]
  BY <1>2 DEF Reserve, ChangeKit, Revert, MarkReady, ReturnToDraft, Cancel, HandOver, Return, Takes,
     LetsGo, Holds
<1>4. d = b
  BY <1>0, <1>3
<1> QED
  BY <1>0, <1>2, <1>4 DEF Reserve, ChangeKit, Revert, MarkReady, ReturnToDraft, Cancel, HandOver,
     HandoverUnblocked

\* A kit that is available after a return has no required member that is unfit
\* at that moment (completeReturn, kitStatusAfterReturn).
THEOREM ReturnsLeaveKitsFit == InventorySpec => AvailableAfterReturnIsFit
<1>1. InventoryInv /\ [InventoryNext]_inventoryVars =>
        [\A b \in Bookings :
           hold[b] = "OUT" /\ hold'[b] = "none" /\ kit'[kitOf[b]].status = "AVAILABLE"
              => \A a \in RequiredMembers(kitOf[b]) : Fit(a, asset')]_inventoryVars
  <2> SUFFICES ASSUME InventoryInv, InventoryNext, NEW b \in Bookings,
                      hold[b] = "OUT", hold'[b] = "none", kit'[kitOf[b]].status = "AVAILABLE"
               PROVE  \A a \in RequiredMembers(kitOf[b]) : Fit(a, asset')
    OBVIOUS
  <2>1. Return(b)
    BY OnlyReturnsEnd
  <2>2. PICK k \in Kits : k = kitOf[b]
    BY DEF InventoryInv, BookingSound
  <2>3. PICK status \in {"AVAILABLE", "MAINTENANCE", "DAMAGED"} : status = StatusAfterReturn(k, asset')
    BY DEF StatusAfterReturn
  <2>4. kit'[k].status = status
    <3>1. status \in KitStatuses /\ kit' = [kit EXCEPT ![k].status = status]
      BY <2>1, <2>2, <2>3 DEF Return, LetsGo
    <3> QED
      BY <3>1, KitRowMoves
  <2>5. Readiness(k, asset')
    BY <2>2, <2>3, <2>4 DEF StatusAfterReturn
  <2> QED
    BY <2>2, <2>5 DEF Readiness
<1> QED
  BY <1>1, InventoryIsSound, PTL DEF InventorySpec, AvailableAfterReturnIsFit

\* While a kit is set aside or out, nothing joins or leaves it but by an edit
\* that had missed that (kitAcceptsMembersBlocker, contentsLocked).
THEOREM ContentsStay == InventorySpec => ContentsAreFrozen
<1>1. InventoryInv /\ [InventoryNext]_inventoryVars =>
        [\A k \in Kits : ContentsLocked(k) /\ Members(k)' # Members(k) => k \in crossed']_inventoryVars
  <2> SUFFICES ASSUME InventoryInv, InventoryNext, NEW k \in Kits, ContentsLocked(k),
                      Members(k)' # Members(k)
               PROVE  k \in crossed'
    OBVIOUS
  <2>1. member' # member
    BY DEF Members, IsMember
  <2>2. PICK c \in Clerks : WriteMember(c)
    BY <2>1 DEF InventoryNext, InventoryStep, ReadForUpdateKit, ReadForRemoveKit,
       ReadForAddKitAsset, ReadForUpdateKitAsset, ReadForRemoveKitAsset, ReadForUpdateAsset,
       ReadForRemoveAsset, Read, WriteKit, WriteAsset, OpenMaintenance, CloseMaintenance,
       CreateAsset, Reserve, ChangeKit, Revert, MarkReady, ReturnToDraft, Cancel, StartHandover,
       HandOver, Return, Takes, LetsGo
  <2>3. Commits(c)
    BY <2>1, <2>2 DEF WriteMember, Ends
  <2>4. PICK r \in Records :
              /\ call[c] = r /\ Formed(r)
              /\ r.missed \/ Current(r)
              /\ r.missed => {r.kit, r.asset} \ {None} \subseteq crossed'
    BY <2>3, CommitKnows
  <2>5. r.op \in PairOps /\ r.kit \in Kits /\ r.asset \in Assets
    BY <2>2, <2>4 DEF WriteMember, Formed
  <2>6. member' = [member EXCEPT ![<<r.kit, r.asset>>] =
                      CASE r.op = "addKitAsset"    -> r.to
                        [] r.op = "removeKitAsset" -> Former(@)
                        [] r.op = "updateKitAsset" ->
                             IF IsMember(r.kit, r.asset) THEN r.to ELSE Former(r.to)]
    BY <2>1, <2>2, <2>4 DEF WriteMember, Ends
  <2>7. member \in [Kits \X Assets -> Memberships]
    BY DEF InventoryInv, InventoryShape
  <2>8. r.kit = k
    BY <2>5, <2>6, <2>7 DEF Members, IsMember
  <2>9. CASE r.missed
    BY <2>4, <2>8, <2>9
  <2>10. CASE ~r.missed
    <3>1. r.op = "updateKitAsset"
      BY <2>4, <2>5, <2>8, <2>10 DEF Current, PairOps, KitAcceptsMembers
    <3>2. member'[k, r.asset] = IF IsMember(k, r.asset) THEN r.to ELSE Former(r.to)
      BY <2>5, <2>6, <2>7, <2>8, <3>1
    <3>3. member[k, r.asset] \in Memberships /\ member[k, r.asset] # "never" /\ r.to \in {"required", "optional"}
      BY <2>4, <2>5, <2>7, <2>8, <3>1 DEF Formed
    <3>4. IsMember(k, r.asset)' <=> IsMember(k, r.asset)
      BY <3>2, <3>3 DEF IsMember, Memberships, Former
    <3>5. \A a \in Assets \ {r.asset} : IsMember(k, a)' <=> IsMember(k, a)
      BY <2>5, <2>6, <2>7 DEF IsMember
    <3> QED
      BY <3>4, <3>5 DEF Members
  <2> QED
    BY <2>9, <2>10
<1> QED
  BY <1>1, InventoryIsSound, PTL DEF InventorySpec, ContentsAreFrozen
=============================================================================
