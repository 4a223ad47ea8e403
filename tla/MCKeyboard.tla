----------------------------- MODULE MCKeyboard -----------------------------
(* Instance of Keyboard for TLC: the UIVM (domain 1, slot 0), a viewer (2,   *)
(* slot 1) and a seamless guest (3, slot 2), connected in this order, and    *)
(* two keyboards.                                                            *)
EXTENDS Keyboard

MCVmSlot == [id \in Domids |-> id - 1]
MCKeyboards == [b \in {3, 4} |-> IF b = 3 THEN {"KEY_LEFTCTRL", "KEY_1"}
                                 ELSE {"KEY_NUMLOCK"}]
MCBindings == <<[keys |-> <<"KEY_LEFTCTRL", "KEY_1">>, slot |-> 1]>>
MCShortcuts == {[mods |-> {"KEY_LEFTCTRL"}, key |-> "KEY_1"]}

\* The state the three connections lead to from the start.
NoGuests ==
    [domains |-> [r \in Rec |-> Blank(NoDomid)],
     mouse_dest |-> NULL, mouse_parent |-> NULL,
     keyb_dest |-> NULL, keyb_parent |-> NULL,
     keyb_waits_for_click |-> FALSE,
     current |-> NULL, surface_current |-> NULL, death_window |-> {}]

Joins(s, id) == domain_create(s, id, id, FALSE, FALSE, {})

\* One of the keyboards is used.
VARIABLE used

MCInit ==
    /\ sw = switcher_switch(Joins(Joins(Joins(NoGuests, 1), 2), 3), 1, FALSE, {1})
    /\ KeyboardInit
    /\ used \in DOMAIN Keyboards

MCNext ==
    /\ KeyboardNext
    /\ \A h \in hands' : h[1] = used
    /\ UNCHANGED used

=============================================================================
