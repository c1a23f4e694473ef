------------------------------- MODULE MCKits --------------------------------
(* Two small instances of BookingLifecycle in one run, as the scene says:      *)
(* bookings that compete for a single kit over every pair of windows, for a    *)
(* profile that is switched off and on; and bookings that move between two     *)
(* kits over windows that can always be held together.  Equipment breaks, kits *)
(* are in maintenance and checklists are open or without items in the first    *)
(* only.  DAMAGED, which no guard tells from MAINTENANCE, is left out.         *)
EXTENDS MCBookings

VARIABLE scene

Untouched(k) ==
    /\ kitStatus[k] = "AVAILABLE" /\ contents[k] = "empty" /\ k \notin removedKits
    /\ \A b \in Bookings : kitOf[b] # k

InScene ==
    /\ \A k \in Kits : kitStatus[k] # "DAMAGED"
    /\ IF scene = "one kit"
         THEN /\ \E k \in Kits : \A j \in Kits \ {k} : Untouched(j)
              /\ \A b \in Bookings : ~docRequires[b]
         ELSE /\ \A b \in Bookings :
                   /\ editorOf[b] = NoEditor /\ window[b] # Window(0, 2)
                   /\ status[b] # "ABSENT" => checklist[b] = "complete"
              /\ activeEditors = Editors
              /\ \A k \in Kits : contents[k] # "unfit" /\ kitStatus[k] # "MAINTENANCE"

KitsInit == Init /\ scene \in {"one kit", "two kits"}
KitsNext == Next /\ UNCHANGED scene /\ InScene'

KitsSpec == KitsInit /\ [][KitsNext]_<<vars, scene>>
=============================================================================
