----------------------------- MODULE MCPointer -----------------------------
(* Instances of Pointer for TLC: the UIVM (domain 1, slot 0), a viewer (2,   *)
(* slot 1) and a PV guest (3, slot 2), connected in this order; the user has *)
(* two mice or a touchscreen.  Only the PV guest may go and come back.       *)
EXTENDS Pointer

MCVmSlot == [id \in Domids |-> id - 1]
MCMice == [m \in {3, 4} |-> IF m = 3 THEN {"BTN_LEFT", "BTN_RIGHT"} ELSE {"BTN_LEFT"}]

\* The state the three connections lead to from the start.
NoGuests ==
    [domains |-> [r \in Rec |-> Blank(NoDomid)],
     mouse_dest |-> NULL, mouse_parent |-> NULL,
     keyb_dest |-> NULL, keyb_parent |-> NULL,
     keyb_waits_for_click |-> FALSE,
     current |-> NULL, surface_current |-> NULL, death_window |-> {}]

Joins(s, id) == domain_create(s, id, id, FALSE, FALSE, {})

MCInit ==
    /\ sw = switcher_switch(Joins(Joins(Joins(NoGuests, 1), 2), 3), 1, FALSE, {1})
    /\ Rest

=============================================================================
