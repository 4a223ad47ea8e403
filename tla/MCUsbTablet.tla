----------------------------- MODULE MCUsbTablet -----------------------------
(***************************************************************************)
(* Instance of UsbTablet and of Gesture for TLC.  The behaviours are those *)
(* of a tablet with one finger that draws one diagonal, and those of the   *)
(* gestures alone, with contacts at will.  Two of the places are in two    *)
(* regions: <<5, 19>> is at the left and in the corner at the top of it,   *)
(* <<55, 41>> at the right and in the corner below.                        *)
(***************************************************************************)
EXTENDS UsbTablet

TabletPoints == {<<5, 5>>, <<55, 55>>}
DrawnPoints == {<<5, 19>>, <<55, 41>>, <<55, 5>>, <<5, 55>>}

VARIABLE driven      \* what a behaviour is about

Init ==
    /\ TabletInit /\ GestureInit
    /\ \/ driven = "tablet" /\ gesturing.past = "end"
       \/ driven = "gestures" /\ touches.gesture.past = "end" /\ device.slot = 0

Next ==
    /\ \/ driven = "tablet" /\ TabletNext /\ UNCHANGED gesture_vars
       \/ driven = "gestures" /\ GestureNext /\ UNCHANGED tablet_vars
    /\ UNCHANGED driven
=============================================================================
