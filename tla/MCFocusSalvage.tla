--------------------------- MODULE MCFocusSalvage ---------------------------
(* One behaviour of DomainFocus: a guest (2) is attached again while its    *)
(* slot is held by a PVM (4) that has died with the keyboard.               *)
EXTENDS DomainFocus

VARIABLE step   \* how far the behaviour below has got

MCVmSlot == [id \in Domids |-> IF id = 3 THEN 2 ELSE 1]
MCSlots == {-1, 0}

R(id) == domain_with_domid(sw, id)

\* Each line is an action of Next.
SalvageSteps ==
    \/ step = 0  /\ input_daemon_attach_vkbd(2)
    \/ step = 1  /\ rpc_connect(3)
    \/ step = 2  /\ input_daemon_set_slot(R(2), -1)
    \/ step = 3  /\ rpc_connect(4)
    \/ step = 4  /\ input_daemon_switch_focus(R(2))
    \/ step = 5  /\ input_daemon_divert_mouse_focus(R(2), R(3))
    \/ step = 6  /\ input_daemon_stop_mouse_divert(R(3))
    \/ step = 7  /\ Click
    \/ step = 8  /\ domain_command_take(R(4))
    \/ step = 9  /\ input_daemon_detach_vkbd(R(2))
    \/ step = 10 /\ input_daemon_set_slot(R(3), 0)
    \/ step = 11 /\ input_daemon_attach_vkbd(2)

SalvageSpec ==
    /\ Init /\ step = 0
    /\ [][SalvageSteps /\ step' = step + 1]_<<sw, step>>

=============================================================================
