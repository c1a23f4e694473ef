---------------------------- MODULE MCInventory -----------------------------
(* Two small instances of Inventory in one run, as the scene says: two clerks  *)
(* whose edits of one asset, of a kit and of what is in it and in another      *)
(* cross each other and the steps of one booking; and one clerk who, while no  *)
(* booking interferes, moves an asset between two kits, and another in and out *)
(* of one, that the documents of two bookings list.  Documents outlive a       *)
(* revert in the second only, and going back to a draft in neither; the second *)
(* has no maintenance and no damage.                                           *)
EXTENDS Inventory

CONSTANTS k1, k2, a1, a2, b1, b2, c1, c2

MCKits     == {k1, k2}
MCAssets   == {a1, a2}
MCBookings == {b1, b2}
MCClerks   == {c1, c2}

VARIABLE scene

Idles(c)   == call[c] = Idle
Unused(b)  == hold[b] = "none"
Missing(a) == asset[a].status = "ABSENT"
Aside(k)   == /\ kit[k].status = "AVAILABLE" /\ ~kit[k].deleted
              /\ \A c \in Clerks : call[c].kit = k => call[c].op \in PairOps
              /\ \A b \in Bookings : kitOf[b] # k

Stays(a)   == Cardinality({k \in Kits : member[k, a] # "never"}) <= 1

OneOf(S, Rest(_)) == \E x \in S : \A y \in S \ {x} : Rest(y)

InScene ==
    /\ \A b \in Bookings : hold[b] = "none" => lines[b] = {}
    /\ IF scene = "edits"
        THEN /\ OneOf(Kits, Aside) /\ OneOf(Assets, Missing) /\ OneOf(Bookings, Unused)
             /\ \A b \in Bookings : lines[b] # {} => hold[b] # "RESERVED"
        ELSE /\ OneOf(Clerks, Idles) /\ OneOf(Assets, Stays) /\ maintenance = {}
             /\ \A c \in Clerks : call[c].op \in PairOps \cup {"none"} /\ ~call[c].missed
             /\ \A a \in Assets : asset[a].status \in {"ABSENT", "AVAILABLE", "CHECKED_OUT"}

ScenesInit == InventoryInit /\ scene \in {"edits", "documents"}
ScenesNext == InventoryNext /\ UNCHANGED scene /\ InScene'

ScenesSpec == ScenesInit /\ [][ScenesNext]_<<inventoryVars, scene>>

Interchangeable == Permutations(MCKits) \cup Permutations(MCAssets)
                     \cup Permutations(MCBookings) \cup Permutations(MCClerks)
=============================================================================
