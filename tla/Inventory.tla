----------------------------- MODULE Inventory ------------------------------
(***************************************************************************)
(* Equipment, the kits it is in, and what bookings do to both.             *)
(*                                                                         *)
(* Every edit of the inventory is a READ COMMITTED transaction: it reads a *)
(* kit or an asset and what they hang together with, decides, and writes   *)
(* by primary key.  Here that is two steps, and what it read may have      *)
(* changed between them.  A booking's own steps are those of               *)
(* BookingLifecycle and BookingTransactions, one step each; a handover and *)
(* a return are SERIALIZABLE and lose to any edit of the rows they write.  *)
(* Maintenance records are kept elsewhere: nothing in the program opens or *)
(* closes one.  Names, codes, barcodes, slots and accessories carry no     *)
(* rule but uniqueness and are left out; so are windows (BookingLifecycle) *)
(* and checks and signatures (Desk).                                       *)
(***************************************************************************)
EXTENDS Integers, FiniteSets, TLC

CONSTANTS Kits, Assets, Bookings,
          Clerks,            \* edits that can be under way at once
          AssetStatuses, KitStatuses, \* of the AssetStatus and KitStatus values,
                             \* those considered
          Stock,             \* assets there are at the start, AVAILABLE
          MaxCrossings,      \* bound: nothing happens once more kits and assets than
                             \* this are `crossed'
          None

ASSUME InventoryAssumption ==
    /\ Kits \cap Assets = {} /\ Stock \subseteq Assets
    /\ None \notin Kits \cup Assets
    /\ {"AVAILABLE", "CHECKED_OUT"} \subseteq AssetStatuses
    /\ AssetStatuses \subseteq {"AVAILABLE", "RESERVED", "CHECKED_OUT", "MAINTENANCE",
                                "DAMAGED", "MISSING", "RETIRED"}
    /\ {"AVAILABLE", "RESERVED", "CHECKED_OUT", "MAINTENANCE", "DAMAGED"} \subseteq KitStatuses
    /\ KitStatuses \subseteq {"AVAILABLE", "RESERVED", "CHECKED_OUT", "MAINTENANCE",
                              "DAMAGED", "RETIRED"}

VARIABLES
    kit,         \* kit[k]: the Kit row
    asset,       \* asset[a]: the Asset row, and where its status log ends
    maintenance, \* assets with maintenance in progress or on hold
    member,      \* member[k, a]: the kit_assets row, if any
    hold,        \* hold[b]: the booking's status, as far as the inventory tells
    kitOf,       \* kitOf[b]: the kit it has, while it has one
    docKit,      \* docKit[b]: the kit its handover document was begun for
    lines,       \* lines[b]: the assets that document lists
    left,        \* left[b]: those of them that went out under it (INCLUDED)
    call,        \* call[c]: the edit under way
    crossed,     \* (history) kits and assets written by an edit although
                 \* something it had read was changed meanwhile
    strayed      \* (history) assets that some completed handover listed
                 \* although they were not in its booking's kit

bookingVars   == <<hold, kitOf, docKit, lines, left, strayed>>
inventoryVars == <<kit, asset, maintenance, member, bookingVars, call, crossed>>

AssetOps == {"updateAsset", "removeAsset"}
KitOps   == {"updateKit", "removeKit"}
PairOps  == {"addKitAsset", "updateKitAsset", "removeKitAsset"}

\* "none" stands for a draft, and for no booking; "OUT" lasts through the
\* return inspection.
Holds == {"none", "RESERVED", "READY", "OUT"}

\* A member is required or optional; a former member's row keeps which.
Memberships == {"never", "required", "optional", "was required", "was optional"}

\* moved: the form's status is not the one the edit read.
Idle == [op |-> "none", kit |-> None, asset |-> None, to |-> "none", moved |-> FALSE,
         missed |-> FALSE]

InventoryTypeOK ==
    /\ kit \in [Kits -> [status : KitStatuses, deleted : BOOLEAN]]
    /\ asset \in [Assets -> [status : AssetStatuses \cup {"ABSENT"}, deleted : BOOLEAN,
                             logged : AssetStatuses \cup {"ABSENT"}]]
    /\ maintenance \subseteq Assets
    /\ member \in [Kits \X Assets -> Memberships]
    /\ hold \in [Bookings -> Holds]
    /\ kitOf \in [Bookings -> Kits \cup {None}]
    /\ docKit \in [Bookings -> Kits \cup {None}]
    /\ lines \in [Bookings -> SUBSET Assets]
    /\ left \in [Bookings -> SUBSET Assets]
    /\ \A c \in Clerks : /\ call[c].op \in AssetOps \cup KitOps \cup PairOps \cup {"none"}
                         /\ call[c].kit \in Kits \cup {None}
                         /\ call[c].asset \in Assets \cup {None}
    /\ crossed \subseteq Kits \cup Assets
    /\ strayed \subseteq Assets
    \* a booking that holds has a kit, one that is out has a document, and a
    \* document lists the equipment of a kit
    /\ \A b \in Bookings : /\ hold[b] # "none" => kitOf[b] \in Kits
                           /\ hold[b] = "OUT" => lines[b] # {}
                           /\ lines[b] # {} => docKit[b] \in Kits

InventoryInit ==
    /\ kit = [k \in Kits |-> [status |-> "AVAILABLE", deleted |-> FALSE]]
    /\ asset = [a \in Assets |-> LET s == IF a \in Stock THEN "AVAILABLE" ELSE "ABSENT" IN
                                 [status |-> s, deleted |-> FALSE, logged |-> s]]
    /\ maintenance = {}
    /\ member = [p \in Kits \X Assets |-> "never"]
    /\ hold = [b \in Bookings |-> "none"]
    /\ kitOf = [b \in Bookings |-> None]
    /\ docKit = [b \in Bookings |-> None]
    /\ lines = [b \in Bookings |-> {}]
    /\ left = [b \in Bookings |-> {}]
    /\ call = [c \in Clerks |-> Idle]
    /\ crossed = {}
    /\ strayed = {}

-----------------------------------------------------------------------------
(* What the rules read *)

IsMember(k, a) == member[k, a] \in {"required", "optional"}
Members(k)     == {a \in Assets : IsMember(k, a)}
InKit(a)       == \E k \in Kits : IsMember(k, a)

\* getKitLifecycleContext.
HasLiveBooking(k) == \E b \in Bookings : hold[b] # "none" /\ kitOf[b] = k
ContentsLocked(k) == \E b \in Bookings : hold[b] \in {"READY", "OUT"} /\ kitOf[b] = k

ManualKitStatuses   == {"AVAILABLE", "MAINTENANCE", "DAMAGED", "RETIRED"} \cap KitStatuses
ManualAssetStatuses == {"AVAILABLE", "DAMAGED", "MISSING", "RETIRED"} \cap AssetStatuses

AllowedKitStatusTransitions(k) ==
    IF kit[k].status \in {"RESERVED", "CHECKED_OUT"} THEN {kit[k].status}
    ELSE {kit[k].status} \cup
         {s \in ManualKitStatuses : s = "RETIRED" => Members(k) = {} /\ ~HasLiveBooking(k)}

KitRemovable(k) ==
    /\ ~kit[k].deleted /\ ~HasLiveBooking(k)
    /\ kit[k].status \notin {"RESERVED", "CHECKED_OUT"}
    /\ Members(k) = {}

KitAcceptsMembers(k) == ~kit[k].deleted /\ kit[k].status # "RETIRED" /\ ~ContentsLocked(k)

Assignable(a) ==
    /\ asset[a].status = "AVAILABLE" /\ ~asset[a].deleted
    /\ ~InKit(a) /\ a \notin maintenance

\* (Fault) only what the member itself says.
MemberRemovableByItsStatus(k, a) == asset[a].status \notin {"CHECKED_OUT", "RESERVED"}

MemberRemovable(k, a) ==
    ~ContentsLocked(k) /\ asset[a].status \notin {"CHECKED_OUT", "RESERVED"}

\* (Fault) equipment that is out can be marked by hand.
AllowedStatusTransitionsWhileOut(a) ==
    {asset[a].status} \cup {s \in ManualAssetStatuses : s = "RETIRED" => ~InKit(a)}

AllowedStatusTransitions(a) ==
    LET now == asset[a].status IN
    CASE now \in {"RESERVED", "CHECKED_OUT"} -> {now}
      [] now = "MAINTENANCE" -> IF a \in maintenance THEN {now}
                                ELSE {now} \cup ({"AVAILABLE", "DAMAGED"} \cap AssetStatuses)
      [] OTHER -> {now} \cup {s \in ManualAssetStatuses :
                                /\ s = "AVAILABLE" => a \notin maintenance
                                /\ s = "RETIRED" => ~InKit(a)}

AssetRemovable(a) ==
    /\ ~asset[a].deleted /\ ~InKit(a) /\ a \notin maintenance
    /\ asset[a].status \notin {"RESERVED", "CHECKED_OUT"}

\* evaluateKitReadinessForBooking: the booking's own hold and the workflow's
\* statuses do not count; optional members only give warnings.
Fit(a, rows) == ~rows[a].deleted /\ a \notin maintenance /\ rows[a].status = "AVAILABLE"
RequiredMembers(k) == {a \in Assets : member[k, a] = "required"}
Readiness(k, rows) ==
    /\ ~kit[k].deleted
    /\ kit[k].status \in {"AVAILABLE", "RESERVED", "CHECKED_OUT"}
    /\ \A a \in RequiredMembers(k) : Fit(a, rows)

-----------------------------------------------------------------------------
(* Edits *)

\* What a commit that changes these kits and assets means to the others.
Touch(things) == [c \in Clerks |->
    IF call[c].kit \in things \/ call[c].asset \in things
    THEN [call[c] EXCEPT !.missed = TRUE] ELSE call[c]]

Read(c, record) ==
    /\ call[c] = Idle
    /\ call' = [call EXCEPT ![c] = record]
    /\ UNCHANGED <<kit, asset, maintenance, member, bookingVars, crossed>>

\* A form is sent with the status it was opened with, or another one.
ReadForUpdateKit(c, k) ==
    /\ ~kit[k].deleted
    /\ \E to \in AllowedKitStatusTransitions(k) :
         Read(c, [Idle EXCEPT !.op = "updateKit", !.kit = k, !.to = to])

ReadForRemoveKit(c, k) ==
    KitRemovable(k) /\ Read(c, [Idle EXCEPT !.op = "removeKit", !.kit = k])

ReadForAddKitAsset(c, k, a) ==
    /\ KitAcceptsMembers(k)
    /\ Assignable(a)
    /\ \E role \in {"required", "optional"} :
         Read(c, [Idle EXCEPT !.op = "addKitAsset", !.kit = k, !.asset = a, !.to = role])

\* Which member is required may change while the contents are frozen.
ReadForUpdateKitAsset(c, k, a) ==
    /\ IsMember(k, a) /\ ~kit[k].deleted
    /\ \E role \in {"required", "optional"} \ {member[k, a]} :
         Read(c, [Idle EXCEPT !.op = "updateKitAsset", !.kit = k, !.asset = a, !.to = role])

ReadForRemoveKitAsset(c, k, a) ==
    /\ IsMember(k, a) /\ MemberRemovable(k, a)
    /\ Read(c, [Idle EXCEPT !.op = "removeKitAsset", !.kit = k, !.asset = a])

ReadForUpdateAsset(c, a) ==
    /\ asset[a].status # "ABSENT" /\ ~asset[a].deleted
    /\ \E to \in AllowedStatusTransitions(a) :
         Read(c, [Idle EXCEPT !.op = "updateAsset", !.asset = a, !.to = to,
                              !.moved = to # asset[a].status])

ReadForRemoveAsset(c, a) ==
    /\ asset[a].status # "ABSENT" /\ AssetRemovable(a)
    /\ Read(c, [Idle EXCEPT !.op = "removeAsset", !.asset = a])

\* (Fault) there is no index on active memberships.
RefusedByNothing(k, a) == FALSE

\* kit_assets_one_active_kit_per_asset, and one row for a kit and an asset.
RefusedByIndex(k, a) == InKit(a)

Commits(c) ==
    LET k == call[c] IN
    /\ call' = [Touch({k.kit, k.asset} \ {None}) EXCEPT ![c] = Idle]
    /\ crossed' = IF k.missed THEN crossed \cup ({k.kit, k.asset} \ {None}) ELSE crossed

Ends(c) ==
    /\ call' = [call EXCEPT ![c] = Idle]
    /\ UNCHANGED <<kit, asset, member, crossed>>

WriteKit(c) ==
    LET r == call[c] IN
    /\ r.op \in KitOps
    /\ kit' = [kit EXCEPT ![r.kit] = IF r.op = "removeKit" THEN [@ EXCEPT !.deleted = TRUE]
                                     ELSE [@ EXCEPT !.status = r.to]]
    /\ Commits(c)
    /\ UNCHANGED <<asset, maintenance, member, bookingVars>>

\* The row of a member that leaves.
Former(role) == IF role = "required" THEN "was required"
                ELSE IF role = "optional" THEN "was optional" ELSE role

\* A kit that had the asset before gets its old row back.
WriteMember(c) ==
    LET r == call[c] IN
    /\ r.op \in PairOps
    /\ IF r.op = "addKitAsset" /\ RefusedByIndex(r.kit, r.asset)
       THEN Ends(c)
       ELSE /\ member' = [member EXCEPT ![<<r.kit, r.asset>>] =
                            CASE r.op = "addKitAsset"    -> r.to
                              [] r.op = "removeKitAsset" -> Former(@)
                              [] r.op = "updateKitAsset" ->
                                   IF IsMember(r.kit, r.asset) THEN r.to ELSE Former(r.to)]
            /\ Commits(c)
            /\ UNCHANGED <<kit, asset>>
    /\ UNCHANGED <<maintenance, bookingVars>>

\* The status log gets an entry when the form's status is not the one it read.
WriteAsset(c) ==
    LET r == call[c] IN
    /\ r.op \in AssetOps
    /\ asset' = [asset EXCEPT ![r.asset] =
          IF r.op = "removeAsset" THEN [@ EXCEPT !.deleted = TRUE]
          ELSE [@ EXCEPT !.status = r.to,
                            !.logged = IF r.moved THEN r.to ELSE asset[r.asset].logged]]
    /\ Commits(c)
    /\ UNCHANGED <<kit, maintenance, member, bookingVars>>

\* createAsset: a new number, a row, the first entry of its log.
CreateAsset(a, s) ==
    /\ asset[a].status = "ABSENT"
    /\ asset' = [asset EXCEPT ![a].status = s, ![a].logged = s]
    /\ UNCHANGED <<kit, maintenance, member, bookingVars, call, crossed>>

\* External: a maintenance record is opened or closed; opening one may mark
\* the asset.
OpenMaintenance(a) ==
    /\ asset[a].status # "ABSENT" /\ ~asset[a].deleted /\ a \notin maintenance
    /\ maintenance' = maintenance \cup {a}
    /\ \E s \in {asset[a].status} \cup
                (IF asset[a].status = "AVAILABLE" THEN {"MAINTENANCE"} \cap AssetStatuses ELSE {}) :
         asset' = [asset EXCEPT ![a].status = s,
                                ![a].logged = IF s = asset[a].status
                                              THEN asset[a].logged ELSE s]
    /\ call' = Touch({a})
    /\ UNCHANGED <<kit, member, bookingVars, crossed>>

CloseMaintenance(a) ==
    /\ a \in maintenance
    /\ maintenance' = maintenance \ {a}
    /\ call' = Touch({a})
    /\ UNCHANGED <<kit, asset, member, bookingVars, crossed>>

-----------------------------------------------------------------------------
(* Bookings *)

\* bookingHandoverBlockers is empty.
HandoverUnblocked(b) ==
    /\ hold[b] = "READY"
    /\ kit[kitOf[b]].status = "RESERVED"
    /\ Members(kitOf[b]) # {} /\ Readiness(kitOf[b], asset)

\* A booking takes a kit, which gets this status; to the edits under way its
\* bookings have changed.
Takes(b, to, k, status) ==
    /\ hold' = [hold EXCEPT ![b] = to]
    /\ kitOf' = [kitOf EXCEPT ![b] = k]
    /\ kit' = [kit EXCEPT ![k].status = status]
    /\ call' = Touch({k, kitOf[b]} \ {None})
    /\ UNCHANGED <<asset, maintenance, member, docKit, lines, left, crossed, strayed>>

SetAsideStatus(k) == IF kit[k].status = "AVAILABLE" THEN "RESERVED" ELSE kit[k].status
PutBackStatus(k)  == IF kit[k].status = "RESERVED" THEN "AVAILABLE" ELSE kit[k].status

\* createBooking and reserveBooking; a draft may have had its kit replaced.
Reserve(b, k) ==
    /\ hold[b] = "none" /\ Readiness(k, asset)
    /\ Takes(b, "RESERVED", k, kit[k].status)

\* updateBooking; a document that was begun stays as it is.
ChangeKit(b, k) ==
    /\ hold[b] = "RESERVED" /\ k # kitOf[b] /\ Readiness(k, asset)
    /\ Takes(b, "RESERVED", k, kit[k].status)

MarkReady(b) ==
    /\ hold[b] = "RESERVED" /\ Readiness(kitOf[b], asset)
    /\ Takes(b, "READY", kitOf[b], SetAsideStatus(kitOf[b]))

\* revertReadyForHandover takes drafts too, and asks for no readiness.
Revert(b, k) ==
    /\ hold[b] = "READY" => k = kitOf[b]
    /\ hold[b] \in {"READY", "none"}
    /\ Takes(b, "RESERVED", k, PutBackStatus(k))

\* A booking lets go of its kit.
LetsGo(b, status) ==
    /\ hold' = [hold EXCEPT ![b] = "none"]
    /\ kitOf' = [kitOf EXCEPT ![b] = None]
    /\ kit' = [kit EXCEPT ![kitOf[b]].status = status]
    /\ UNCHANGED <<maintenance, member, crossed, strayed>>

\* The document stays with the draft.
ReturnToDraft(b) ==
    /\ hold[b] = "RESERVED"
    /\ LetsGo(b, kit[kitOf[b]].status)
    /\ call' = Touch({kitOf[b]})
    /\ UNCHANGED <<asset, docKit, lines, left>>

\* The documents of a booking that is over are not looked at again.
NoDocument(b) ==
    /\ docKit' = [docKit EXCEPT ![b] = None]
    /\ lines' = [lines EXCEPT ![b] = {}]
    /\ left' = [left EXCEPT ![b] = {}]

Cancel(b) ==
    /\ hold[b] \in {"RESERVED", "READY"}
    /\ LetsGo(b, IF hold[b] = "READY" THEN PutBackStatus(kitOf[b]) ELSE kit[kitOf[b]].status)
    /\ call' = Touch({kitOf[b]})
    /\ NoDocument(b)
    /\ UNCHANGED asset

\* The equipment is listed once: starting again finds the document there is.
StartHandover(b) ==
    /\ lines[b] = {} /\ HandoverUnblocked(b)
    /\ docKit' = [docKit EXCEPT ![b] = kitOf[b]]
    /\ lines' = [lines EXCEPT ![b] = Members(kitOf[b])]
    /\ UNCHANGED <<kit, asset, maintenance, member, hold, kitOf, left, call, crossed, strayed>>

\* Whether a line is required is what its kit_assets row says by now, be the
\* asset still a member or not.
RequiredLines(b) == {a \in lines[b] : member[docKit[b], a] \in {"required", "was required"}}

\* What can be recorded of the lines of a document.
Recorded(b) ==
    [lines[b] -> {"INCLUDED", "NOT_APPLICABLE"} \cup ({"MISSING", "DAMAGED"} \cap AssetStatuses)]

\* Completing a document: each line's condition implies a status, and an asset
\* that is in the inventory and has another gets it, and an entry in its log.
Implied(a, recorded, included) ==
    IF a \notin DOMAIN recorded THEN asset[a].status
    ELSE IF recorded[a] = "NOT_APPLICABLE" \/ asset[a].deleted THEN asset[a].status
    ELSE IF recorded[a] = "INCLUDED" THEN included ELSE recorded[a]

Written(recorded, included) ==
    [a \in Assets |->
        IF Implied(a, recorded, included) = asset[a].status THEN asset[a]
        ELSE [asset[a] EXCEPT !.status = Implied(a, recorded, included),
                              !.logged = Implied(a, recorded, included)]]

Rewritten == {a \in Assets : asset'[a] # asset[a]}

\* verificationVerdict has no blocker about the equipment: what is required is
\* still in the kit, without maintenance, and goes out.
LinesVerified(b, recorded) ==
    \A a \in RequiredLines(b) :
        recorded[a] = "INCLUDED" /\ IsMember(kitOf[b], a) /\ a \notin maintenance

\* completeHandover works through the lines, not through the members.
HandOver(b) ==
    /\ lines[b] # {} /\ HandoverUnblocked(b)
    /\ \E recorded \in Recorded(b) :
         /\ LinesVerified(b, recorded)
         /\ asset' = Written(recorded, "CHECKED_OUT")
         /\ left' = [left EXCEPT ![b] = {a \in lines[b] : recorded[a] = "INCLUDED"}]
    /\ hold' = [hold EXCEPT ![b] = "OUT"]
    /\ kit' = [kit EXCEPT ![kitOf[b]].status = "CHECKED_OUT"]
    /\ strayed' = strayed \cup (lines[b] \ Members(kitOf[b]))
    /\ call' = Touch({kitOf[b]} \cup Rewritten)
    /\ UNCHANGED <<maintenance, member, kitOf, docKit, lines, crossed>>

\* (Fault) the booking closed, so the kit is available.
StatusAfterReturnAssumed(k, rows) == "AVAILABLE"

\* kitStatusAfterReturn.
StatusAfterReturn(k, rows) ==
    IF Readiness(k, rows) THEN "AVAILABLE"
    ELSE IF \E a \in RequiredMembers(k) : ~rows[a].deleted /\ a \in maintenance
    THEN "MAINTENANCE"
    ELSE "DAMAGED"

\* completeReturn: every line that left is answered for and the others may be;
\* then the kit is judged by its equipment.
Return(b) ==
    /\ hold[b] = "OUT" /\ ~kit[kitOf[b]].deleted /\ left[b] # {}
    /\ \E recorded \in Recorded(b) :
         /\ \A a \in left[b] : recorded[a] # "NOT_APPLICABLE"
         /\ asset' = Written(recorded, "AVAILABLE")
    /\ LetsGo(b, StatusAfterReturn(kitOf[b], asset'))
    /\ call' = Touch({kitOf[b]} \cup Rewritten)
    /\ NoDocument(b)

InventoryStep ==
    \/ \E c \in Clerks :
         \/ \E k \in Kits :
              \/ ReadForUpdateKit(c, k) \/ ReadForRemoveKit(c, k)
              \/ \E a \in Assets : \/ ReadForAddKitAsset(c, k, a) \/ ReadForUpdateKitAsset(c, k, a)
                                   \/ ReadForRemoveKitAsset(c, k, a)
         \/ \E a \in Assets : ReadForUpdateAsset(c, a) \/ ReadForRemoveAsset(c, a)
         \/ WriteKit(c) \/ WriteMember(c) \/ WriteAsset(c)
    \/ \E a \in Assets : \/ OpenMaintenance(a) \/ CloseMaintenance(a)
                         \/ \E s \in ManualAssetStatuses : CreateAsset(a, s)
    \/ \E b \in Bookings :
         \/ \E k \in Kits : Reserve(b, k) \/ ChangeKit(b, k) \/ Revert(b, k)
         \/ MarkReady(b) \/ ReturnToDraft(b) \/ Cancel(b)
         \/ StartHandover(b) \/ HandOver(b) \/ Return(b)

InventoryNext == Cardinality(crossed) <= MaxCrossings /\ InventoryStep

InventorySpec == InventoryInit /\ [][InventoryNext]_inventoryVars

-----------------------------------------------------------------------------
(* Properties *)

\* However edits race, an asset is an active member of one kit at most
\* (kit_assets_one_active_kit_per_asset); and what is in a kit is in the
\* inventory, and so is the kit: neither is removed or retired, however it came
\* there, unless edits of that kit or asset crossed (assetAssignmentBlocker,
\* kitAcceptsMembersBlocker, removalBlocker, kitRemovalBlocker and the two
\* status machines, together).
MembershipsAreSound ==
    /\ \A a \in Assets : Cardinality({k \in Kits : IsMember(k, a)}) <= 1
    /\ \A k \in Kits, a \in Assets :
          IsMember(k, a) /\ {k, a} \cap crossed = {} =>
              /\ ~asset[a].deleted /\ asset[a].status # "RETIRED"
              /\ ~kit[k].deleted /\ kit[k].status # "RETIRED"

\* Equipment is checked out only while it is out with a booking, and its status
\* log ends with the status it has, unless edits of it crossed.  What is out with
\* a booking is checked out, and so is the booking's kit, which still has it,
\* unless edits of one of them crossed or a handover listed the equipment though
\* it was not in its booking's kit (completeHandover, completeReturn,
\* allowedStatusTransitions and memberRemovalBlocker, together).
CheckedOutWithItsKit ==
    \A a \in Assets \ crossed :
        /\ asset[a].logged = asset[a].status
        /\ asset[a].status = "CHECKED_OUT" => \E b \in Bookings : hold[b] = "OUT" /\ a \in left[b]
        /\ \A b \in Bookings :
              hold[b] = "OUT" /\ a \in left[b] \ strayed /\ kitOf[b] \notin crossed =>
                  /\ asset[a].status = "CHECKED_OUT" /\ kit[kitOf[b]].status = "CHECKED_OUT"
                  /\ IsMember(kitOf[b], a)

\* A kit that is available after a return has no required member that is
\* damaged, missing or in maintenance at that moment (completeReturn evaluates
\* the kit after it has put the equipment back).
AvailableAfterReturnIsFit ==
    [][\A b \in Bookings :
         hold[b] = "OUT" /\ hold'[b] = "none" /\ kit'[kitOf[b]].status = "AVAILABLE"
            => \A a \in RequiredMembers(kitOf[b]) : Fit(a, asset')]_inventoryVars

\* While a kit is set aside or out, nothing joins or leaves it, but by an edit
\* that was checked before it was set aside.
ContentsAreFrozen ==
    [][\A k \in Kits : ContentsLocked(k) /\ Members(k)' # Members(k) => k \in crossed']_inventoryVars

\* The documents' claim of the frozen contents, "the handover document is being
\* or has been signed against them" (docs/ARCHITECTURE.md:1902-1905): what left
\* under a booking is in its kit, unless edits of one of them crossed.  The code
\* keeps a document through a revert, and lists nothing again.
SignedAgainstContents ==
    \A b \in Bookings :
        hold[b] = "OUT" /\ kitOf[b] \notin crossed
            => \A a \in left[b] \ crossed : IsMember(kitOf[b], a)
=============================================================================
